---- MODULE Spec2Model ----
(***************************************************************************)
(* Model of the AGS snapshot/state manager (internal/ags): the atomic file *)
(* store, the identity part of the auth insight engine and the manager's   *)
(* save / use / delete handlers over the state document, the snapshot      *)
(* files and the tools' runtime auth files.                                *)
(*                                                                         *)
(* Modelling conventions                                                   *)
(*  - a file's bytes are a record [kind, pretty, m]: kind says whether the *)
(*    bytes parse as a JSON object, m maps every top-level key to the      *)
(*    spelling of its value (None when the key is absent) and pretty says  *)
(*    whether the bytes have the layout json.MarshalIndent produces.  Two  *)
(*    files are byte-identical iff the records are equal.                  *)
(*  - sha256Hex is collision free: the digest of bytes is the bytes.       *)
(*  - a label is a sequence of characters.                                 *)
(*  - a directory of files is a function whose domain is the set of paths  *)
(*    that exist.                                                          *)
(***************************************************************************)
EXTENDS Integers, Sequences, FiniteSets, TLC

VARIABLES
    runtime,    \* files outside the data root: path -> bytes (runtime auth files, override paths)
    snapshots,  \* files <root>/snapshots/<tool>/<label>.json: <<tool, label>> -> bytes
    stateFile,  \* the data root's directory: "state.json" -> the state document
    now,        \* the wall clock, in whole seconds
    ops,        \* number of calls made so far
    res,        \* what the last call returned, and what the files held when it started
    hist,       \* history of the successful calls (observation only, no call reads it)
    aw,         \* one atomicWriteFile call executed step by step
    race,       \* calls of concurrent invocations on one data root, executed step by step
    calc        \* one evaluation of a function of the insight engine: its inputs and its result

vars == <<runtime, snapshots, stateFile, now, ops, res, hist, aw, race, calc>>

(***************************************************************************)
(* Bounds of the model.                                                    *)
(***************************************************************************)
MaxLabelLen == 2
MaxOps == 4
MaxBytes == 2

(***************************************************************************)
(* Strings.                                                                *)
(***************************************************************************)
LabelAlphabet == {"w", " ", "/"}

SeqsUpTo(S, n) == UNION {[1..k -> S] : k \in 0..n}

AllLabels == SeqsUpTo(LabelAlphabet, MaxLabelLen)

\* strings.TrimSpace on a sequence of characters
RECURSIVE TrimLeft(_)
TrimLeft(s) == IF s # <<>> /\ Head(s) = " " THEN TrimLeft(Tail(s)) ELSE s

RECURSIVE TrimRight(_)
TrimRight(s) ==
    IF s # <<>> /\ s[Len(s)] = " " THEN TrimRight(SubSeq(s, 1, Len(s) - 1)) ELSE s

TrimSpace(s) == TrimRight(TrimLeft(s))

\* the character class [a-zA-Z0-9._-] restricted to the model's alphabet
LabelClass == {"w", ".", "_", "-"}

\* labelPattern = ^[a-zA-Z0-9._-]+$
labelPatternMatch(s) == s # <<>> /\ \A i \in 1..Len(s) : s[i] \in LabelClass

(***************************************************************************)
(* Tools and paths.                                                        *)
(***************************************************************************)
ToolCodex == "codex"
ToolClaude == "claude"
ToolPi == "pi"

ParseTool(value) == value \in {ToolCodex, ToolClaude, ToolPi}

HomeCodexAuth == "/home/.codex/auth.json"
HomePiAuth == "/home/.pi/agent/auth.json"
TildeAlt == "~/alt.json"
HomeAlt == "/home/alt.json"

\* Manager.paths, as NewManager fills it: only codex and pi have paths
DefaultRuntime(tool) ==
    CASE tool = ToolCodex -> HomeCodexAuth
      [] tool = ToolPi -> HomePiAuth
      [] OTHER -> ""

SaveCandidates(tool) ==
    CASE tool = ToolCodex -> <<HomeCodexAuth>>
      [] tool = ToolPi -> <<HomePiAuth>>
      [] OTHER -> <<>>

\* expandPath: [err, path]
expandPath(path) ==
    IF path = "" THEN [err |-> "path cannot be empty", path |-> ""]
    ELSE IF path = TildeAlt THEN [err |-> "", path |-> HomeAlt]
    ELSE [err |-> "", path |-> path]

snapshotPath(tool, label) == <<tool, label>>

\* a key that leaves out the tool
stateKey_LabelOnly(tool, label) == <<"", label>>

stateKey(tool, label) == <<tool, label>>

(***************************************************************************)
(* JSON payloads.                                                          *)
(***************************************************************************)
None == "-"

JsonKeys == {"tokens", "openai-codex", "anthropic", "Anthropic"}

\* spellings of JSON values; "t1~" is another spelling of the value "t1"
\* (json.Unmarshal followed by json.MarshalIndent turns it into "t1")
PiVals == {"t1", "t1~", "t2"}
\* values of the "tokens" object of a codex payload, named by the claims they carry
TokenVals == {"A", "B", "C", "D"}
JsonVals == PiVals \cup TokenVals

Canon(v) == IF v = "t1~" THEN "t1" ELSE v

EmptyMap == [k \in JsonKeys |-> None]

NoFile == [kind |-> "nofile", pretty |-> FALSE, m |-> EmptyMap]
NotJSONObject == [kind |-> "nonobject", pretty |-> FALSE, m |-> EmptyMap]
\* a path that exists and that os.ReadFile cannot read (a directory)
Unreadable == [kind |-> "unreadable", pretty |-> FALSE, m |-> EmptyMap]
\* the error of os.ReadFile is an error other than "does not exist"
ReadFails(read) == read.exists /\ read.raw = Unreadable

Obj(pretty, m) == [kind |-> "object", pretty |-> pretty, m |-> m]

KeysOf(raw) == {k \in JsonKeys : raw.m[k] # None}

\* validateJSONObject: TRUE when the bytes parse as a JSON object
validateJSONObject(raw) == raw.kind = "object"

\* json.Unmarshal into map[string]any: the decoded values
Unmarshal(raw) == [k \in JsonKeys |-> Canon(raw.m[k])]

\* json.MarshalIndent(obj, "", "  ") followed by a newline
jsonMarshalIndent(obj) == Obj(TRUE, obj)

sha256Hex(raw) == raw
NoSHA == NoFile

\* os.ReadFile on a directory of files: [exists, raw]
ReadFile(dir, path) ==
    IF path \in DOMAIN dir THEN [exists |-> TRUE, raw |-> dir[path]]
    ELSE [exists |-> FALSE, raw |-> NoFile]

Put(dir, path, raw) == [p \in DOMAIN dir \cup {path} |-> IF p = path THEN raw ELSE dir[p]]

\* a removal that removes nothing
Remove_Nothing(dir, path) == dir

Remove(dir, path) == [p \in DOMAIN dir \ {path} |-> dir[p]]

(***************************************************************************)
(* Atomic file store.                                                      *)
(***************************************************************************)
AWSteps == <<"mkdir", "createTemp", "write", "chmod", "close", "rename">>

AWStepSet == {AWSteps[i] : i \in 1..Len(AWSteps)}

\* atomicWriteFile as one call: failAt names the step that fails ("none": no step
\* fails).  The destination is replaced by the rename, the last step.
atomicWriteFile(dir, path, raw, failAt) ==
    IF failAt = "none" THEN [err |-> "", dir |-> Put(dir, path, raw)]
    ELSE [err |-> failAt, dir |-> dir]

(***************************************************************************)
(* Auth insight engine: the identity fields of an insight.                 *)
(***************************************************************************)
\* tokens.account_id of a "tokens" object
TokenAccountID(v) == IF v \in {"A", "B", "C", "D"} THEN "acct_X" ELSE ""

\* the email claim of tokens.id_token
TokenEmailClaim(v) ==
    CASE v \in {"A", "D"} -> "e1@x"
      [] v = "C" -> "e2@x"
      [] OTHER -> ""

\* the plan claim of tokens.id_token
TokenPlanClaim(v) ==
    CASE v = "A" -> "plus"
      [] v = "C" -> "chatgpt_pro"
      [] OTHER -> ""

\* normalizePlan, on the plan claims of TokenPlanClaim
normalizePlan(plan) ==
    CASE plan \in {"plus", "chatgpt_plus"} -> "Plus"
      [] plan \in {"pro", "chatgpt_pro"} -> "Pro"
      [] OTHER -> ""

NoInsight == [AccountID |-> "", AccountEmail |-> "", AccountPlan |-> ""]

inspectCodex(raw) ==
    LET tokens == Unmarshal(raw)["tokens"] IN
    IF raw.kind # "object" \/ tokens \notin TokenVals THEN NoInsight
    ELSE [AccountID |-> TokenAccountID(tokens),
          AccountEmail |-> TokenEmailClaim(tokens),
          AccountPlan |-> normalizePlan(TokenPlanClaim(tokens))]

\* inspectPi reports no identity
inspectPi(raw) == NoInsight

inspectAuth(tool, raw) ==
    CASE tool = ToolCodex -> inspectCodex(raw)
      [] tool = ToolPi -> inspectPi(raw)
      [] OTHER -> NoInsight

(***************************************************************************)
(* The state document.                                                     *)
(***************************************************************************)
StatePath == "state.json"

NoTime == <<>>
nowISO(clock) == <<clock>>

\* the zero StateEntry
ZeroEntry ==
    [Tool |-> "", Label |-> <<>>, SourcePath |-> "", SnapshotPath |-> <<"", <<>>>>,
     SHA256 |-> NoSHA, SavedAt |-> NoTime, LastUsedAt |-> NoTime, LastUsedSHA |-> NoSHA]

\* defaultState(): it sets Version and Entries; every other map of the State is nil
\* (nilMaps names the maps that are nil; a nil map reads as the empty map)
defaultState ==
    [Version |-> 1, Entries |-> <<>>, IdentityCache |-> <<>>, nilMaps |-> {"IdentityCache"}]

\* a state document that the program did not write: its bytes are not a JSON object
\* (json is "null", "array", "scalar" or "malformed")
ForeignDoc(json) == [json |-> json]
IsForeignDoc(doc) == "json" \in DOMAIN doc

\* State{}: the zero value
ZeroState ==
    [Version |-> 0, Entries |-> <<>>, IdentityCache |-> <<>>,
     nilMaps |-> {"Entries", "IdentityCache"}]

\* the error of Manager.loadState: json.Unmarshal into the State struct accepts an
\* object and null, and fails on an array, a scalar and malformed bytes
loadStateErr(sf) ==
    IF StatePath \notin DOMAIN sf THEN ""
    ELSE IF ~IsForeignDoc(sf[StatePath]) THEN ""
    ELSE IF sf[StatePath].json = "null" THEN ""
    ELSE "parsing state"

\* Manager.loadState on the data root's directory: a missing document is the default
\* state; a document that was read has its nil maps and its zero version filled in
loadState(sf) ==
    IF StatePath \notin DOMAIN sf THEN defaultState
    ELSE IF loadStateErr(sf) # "" THEN ZeroState
    ELSE LET doc == IF IsForeignDoc(sf[StatePath]) THEN ZeroState ELSE sf[StatePath] IN
         [doc EXCEPT !.Version = IF doc.Version = 0 THEN 1 ELSE doc.Version,
                     !.nilMaps = {}]

\* a saveState that leaves the identity cache out of the document it writes
saveState_WithoutCache(sf, state, failAt) ==
    IF failAt = "serialize" THEN [err |-> "serializing state", dir |-> sf]
    ELSE atomicWriteFile(sf, StatePath, [state EXCEPT !.IdentityCache = <<>>], failAt)

\* Manager.saveState: [err, dir]; "serialize" fails before the atomic write starts
saveState(sf, state, failAt) ==
    IF failAt = "serialize" THEN [err |-> "serializing state", dir |-> sf]
    ELSE atomicWriteFile(sf, StatePath, state, failAt)

\* a fallback that fills in the email and forgets the plan
hydrateIdentityFromCache_EmailOnly(insight, state) ==
    IF insight.AccountID = "" THEN insight
    ELSE IF insight.AccountEmail # "" THEN insight
    ELSE IF insight.AccountID \notin DOMAIN state.IdentityCache THEN insight
    ELSE LET cacheItem == state.IdentityCache[insight.AccountID] IN
         [insight EXCEPT
            !.AccountEmail = IF cacheItem.Email # "" THEN cacheItem.Email ELSE @]

hydrateIdentityFromCache(insight, state) ==
    IF insight.AccountID = "" THEN insight
    ELSE IF insight.AccountEmail # "" THEN insight
    ELSE IF insight.AccountID \notin DOMAIN state.IdentityCache THEN insight
    ELSE LET cacheItem == state.IdentityCache[insight.AccountID] IN
         [insight EXCEPT
            !.AccountEmail = IF cacheItem.Email # "" THEN cacheItem.Email ELSE @,
            !.AccountPlan = IF @ = "" /\ cacheItem.Plan # "" THEN cacheItem.Plan ELSE @]

rememberIdentity(state, insight, clock) ==
    IF insight.AccountID = "" \/ insight.AccountEmail = "" THEN state
    ELSE [state EXCEPT !.IdentityCache =
            Put(@, insight.AccountID,
                [Email |-> insight.AccountEmail, Plan |-> insight.AccountPlan,
                 UpdatedAt |-> nowISO(clock)]),
                         !.nilMaps = @ \ {"IdentityCache"}]

(***************************************************************************)
(* Validation.                                                             *)
(***************************************************************************)
validateManagerTool(tool) == IF ParseTool(tool) THEN "" ELSE "invalid tool"

\* a label check that rejects the empty label only
validateManagerLabel_NoPattern(label) ==
    IF TrimSpace(label) = <<>> THEN "label is required" ELSE ""

validateManagerLabel(label) ==
    LET trimmed == TrimSpace(label) IN
    IF trimmed = <<>> THEN "label is required"
    ELSE IF ~labelPatternMatch(trimmed) THEN "label must match"
    ELSE ""

validateManagerToolAndLabel(tool, label) ==
    IF validateManagerTool(tool) # "" THEN validateManagerTool(tool)
    ELSE validateManagerLabel(label)

ValidationErrors == {"invalid tool", "label is required", "label must match"}

(***************************************************************************)
(* Provider filtering and merging (the multi-provider tool).               *)
(***************************************************************************)
\* strings.ToLower on the model's keys and selectors
ToLower(str) ==
    CASE str \in {"Anthropic", "ANTHROPIC"} -> "anthropic"
      [] str = "OpenAI-Codex" -> "openai-codex"
      [] str = " Codex" -> " codex"
      [] str = "Codex" -> "codex"
      [] OTHER -> str

\* strings.TrimSpace on the model's selectors
TrimSelector(str) ==
    CASE str = " codex" -> "codex"
      [] str = " Codex" -> "Codex"
      [] OTHER -> str

\* strings.EqualFold
EqualFold(a, b) == ToLower(a) = ToLower(b)

\* strings.Contains(lower, sub) for the lower-cased keys of the model
KeyContains(lower, sub) ==
    \/ lower = "openai-codex" /\ sub \in {"codex", "openai"}
    \/ lower = "anthropic" /\ sub = "anthropic"

\* a resolution that compares the keys as they are spelled
resolvePIProviderKeys_CaseSensitive(payload, selector) ==
    LET present == {k \in JsonKeys : payload[k] # None}
        sel == TrimSelector(ToLower(selector))
    IN
    CASE sel = "codex" -> {k \in present : KeyContains(k, "codex") \/ KeyContains(k, "openai")}
      [] sel = "anthropic" -> {k \in present : KeyContains(k, "anthropic")}
      [] OTHER -> {k \in present : k = sel}

\* the keys of payload that the selector names, in resolvePIProviderKeys
resolvePIProviderKeys(payload, selector) ==
    LET present == {k \in JsonKeys : payload[k] # None}
        sel == TrimSelector(ToLower(selector))
    IN
    CASE sel = "codex" ->
           {k \in present : KeyContains(ToLower(k), "codex") \/ KeyContains(ToLower(k), "openai")}
      [] sel = "anthropic" -> {k \in present : KeyContains(ToLower(k), "anthropic")}
      [] OTHER -> {k \in present : k = sel \/ EqualFold(k, sel)}

\* byte order of the keys
KeyRank(k) ==
    CASE k = "Anthropic" -> 1
      [] k = "anthropic" -> 2
      [] k = "openai-codex" -> 3
      [] OTHER -> 4

\* the keys of payload in the order of sort.Strings: the list of available providers in
\* the error of resolvePIProviderKeys
RECURSIVE availableProviders(_)
availableProviders(keys) ==
    IF keys = {} THEN <<>>
    ELSE LET first == CHOOSE k \in keys : \A o \in keys : KeyRank(k) <= KeyRank(o) IN
         <<first>> \o availableProviders(keys \ {first})

\* filterPIAuthProviders: [err, raw, available]
filterPIAuthProviders(raw, selector) ==
    IF raw.kind # "object" THEN [err |-> "pi auth JSON invalid", raw |-> raw, available |-> <<>>]
    ELSE LET payload == Unmarshal(raw)
             keys == resolvePIProviderKeys(payload, selector)
         IN IF keys = {}
            THEN [err |-> "pi provider not found", raw |-> raw,
                  available |-> availableProviders({k \in JsonKeys : payload[k] # None})]
            ELSE [err |-> "", available |-> <<>>,
                  raw |-> jsonMarshalIndent([k \in JsonKeys |->
                              IF k \in keys THEN payload[k] ELSE None])]

\* a merge in which the target's value of a shared key wins
mergePIAuthWithTarget_TargetWins(snapshotRaw, dir, targetPath) ==
    IF snapshotRaw.kind # "object" THEN [err |-> "snapshot JSON invalid", raw |-> snapshotRaw]
    ELSE LET snapshot == Unmarshal(snapshotRaw)
             targetRead == ReadFile(dir, targetPath)
         IN IF ~targetRead.exists THEN [err |-> "", raw |-> snapshotRaw]
            ELSE IF ~validateJSONObject(targetRead.raw)
                 THEN [err |-> "target auth JSON invalid", raw |-> snapshotRaw]
            ELSE LET target == Unmarshal(targetRead.raw) IN
                 [err |-> "",
                  raw |-> jsonMarshalIndent([k \in JsonKeys |->
                              IF target[k] # None THEN target[k] ELSE snapshot[k]])]

\* a merge that writes the snapshot in place of the target
mergePIAuthWithTarget_SnapshotOnly(snapshotRaw, dir, targetPath) ==
    IF snapshotRaw.kind # "object" THEN [err |-> "snapshot JSON invalid", raw |-> snapshotRaw]
    ELSE [err |-> "", raw |-> snapshotRaw]

\* mergePIAuthWithTarget: [err, raw]
mergePIAuthWithTarget(snapshotRaw, dir, targetPath) ==
    IF snapshotRaw.kind # "object" THEN [err |-> "snapshot JSON invalid", raw |-> snapshotRaw]
    ELSE LET snapshot == Unmarshal(snapshotRaw)
             targetRead == ReadFile(dir, targetPath)
         IN IF ~targetRead.exists THEN [err |-> "", raw |-> snapshotRaw]
            ELSE IF ~validateJSONObject(targetRead.raw)
                 THEN [err |-> "target auth JSON invalid", raw |-> snapshotRaw]
            ELSE LET target == Unmarshal(targetRead.raw) IN
                 [err |-> "",
                  raw |-> jsonMarshalIndent([k \in JsonKeys |->
                              IF snapshot[k] # None THEN snapshot[k] ELSE target[k]])]

\* Manager.resolveSourcePath: [err, path]
resolveSourcePath(dir, tool, sourceOverride) ==
    IF sourceOverride # "" THEN
        LET p == expandPath(sourceOverride) IN
        IF p.err # "" THEN [err |-> p.err, path |-> ""]
        ELSE IF p.path \notin DOMAIN dir
             THEN [err |-> "source path does not exist", path |-> ""]
        ELSE [err |-> "", path |-> p.path]
    ELSE LET candidates == SaveCandidates(tool)
             found == {i \in 1..Len(candidates) : candidates[i] \in DOMAIN dir}
         IN IF found = {} THEN [err |-> "could not find auth file", path |-> ""]
            ELSE [err |-> "",
                  path |-> candidates[CHOOSE i \in found : \A j \in found : i <= j]]

(***************************************************************************)
(* The result of a call.                                                   *)
(***************************************************************************)
NoRes ==
    [op |-> "none", tool |-> "", label |-> <<>>, provider |-> "", ok |-> FALSE, err |-> "",
     accessed |-> {},            \* the kinds of file the call read, stat'ed, wrote or removed
     ChangedSinceLastSave |-> FALSE, ChangeSinceLastUse |-> "", SnapshotDeleted |-> FALSE,
     Insight |-> NoInsight,
     raw |-> NoFile,             \* the bytes the call stored (save) or applied (use)
     target |-> "",              \* the target path of a use
     wroteTarget |-> FALSE,      \* use replaced the target file
     rollback |-> "",            \* "", "done" or "failed"
     \* observed when the call started (filled in by Apply, not by the handlers)
     hadEntry |-> FALSE,         \* whether the state document held the entry of (tool, label)
     entryBefore |-> ZeroEntry,  \* that entry
     snapBefore |-> NoFile,      \* the snapshot file of (tool, label)
     targetBefore |-> NoFile,    \* the target file
     useBefore |-> "none",       \* hist.use of (tool, label)
     items |-> <<>>,             \* the items List or Active returned
     command |-> <<>>,           \* the command line the error message tells the user to run
     source |-> "",              \* the source path a save resolved
     at |-> 0,
     sourceBefore |-> NoFile,    \* the bytes of the source file before the call
     stateBefore |-> "missing",  \* the state document before the call: "missing",
                                 \* "object", or the json of a foreign document
     available |-> <<>>,         \* the provider keys that the error of the call lists
     steps |-> <<>>]             \* the file reads and modifications of the call, in order                   \* the clock when the call ran (filled in by Apply)

Call(op, tool, label, provider) ==
    [NoRes EXCEPT !.op = op, !.tool = tool, !.label = label, !.provider = provider]

\* the files and the result a call leaves behind
Outcome(rt, sn, sf, r) == [runtime |-> rt, snapshots |-> sn, stateFile |-> sf, res |-> r]

\* the file accesses of save, in the order of its statements
saveOrder == <<"read source", "write snapshot", "read state", "write state">>

\* a use that writes the target before it loads the state document
useOrder_TargetFirst ==
    <<"read snapshot", "read target", "write target", "read state", "write state">>

\* the file accesses of use, in the order of its statements
useOrder == <<"read state", "read snapshot", "read target", "write target", "write state">>

\* the file accesses of Delete, in the order of its statements
deleteOrder == <<"read state", "remove snapshot", "write state">>

\* the accesses a call has made when it has passed n of them
FirstSteps(order, n) == SubSeq(order, 1, n)

\* a lookup that finds every key
hasEntry_Always(state, key) == TRUE

\* entry, ok := state.Entries[key]
hasEntry(state, key) == key \in DOMAIN state.Entries

(***************************************************************************)
(* Manager.save                                                            *)
(***************************************************************************)
\* a change signal that looks at the entry only, not at the digest
changedSinceLastSave_IgnoresDigest(hadPrev, prev, hash) == ~hadPrev

\* changed := !hadPrev || prev.SHA256 != hash
changedSinceLastSave(hadPrev, prev, hash) == ~hadPrev \/ prev.SHA256 # hash

\* an entry that forgets the last use
upsertEntry_ForgetsLastUse(prev, tool, label, sourcePath, path, hash, clock) ==
    [Tool |-> tool, Label |-> label, SourcePath |-> sourcePath, SnapshotPath |-> path,
     SHA256 |-> hash, SavedAt |-> nowISO(clock), LastUsedAt |-> NoTime, LastUsedSHA |-> NoSHA]

\* an entry that takes the previous save for the last use
upsertEntry_LastUseIsLastSave(prev, tool, label, sourcePath, path, hash, clock) ==
    [Tool |-> tool, Label |-> label, SourcePath |-> sourcePath, SnapshotPath |-> path,
     SHA256 |-> hash, SavedAt |-> nowISO(clock), LastUsedAt |-> prev.SavedAt,
     LastUsedSHA |-> prev.SHA256]

\* an entry that keeps the digest of the first save
upsertEntry_KeepsFirstDigest(prev, tool, label, sourcePath, path, hash, clock) ==
    [Tool |-> tool, Label |-> label, SourcePath |-> sourcePath, SnapshotPath |-> path,
     SHA256 |-> IF prev.SHA256 = NoSHA THEN hash ELSE prev.SHA256, SavedAt |-> nowISO(clock),
     LastUsedAt |-> prev.LastUsedAt, LastUsedSHA |-> prev.LastUsedSHA]

\* state.Entries[key] = StateEntry{...}: the entry a save stores over prev
upsertEntry(prev, tool, label, sourcePath, path, hash, clock) ==
    [Tool |-> tool, Label |-> label, SourcePath |-> sourcePath, SnapshotPath |-> path,
     SHA256 |-> hash, SavedAt |-> nowISO(clock), LastUsedAt |-> prev.LastUsedAt,
     LastUsedSHA |-> prev.LastUsedSHA]

save(rt, sn, sf, clock, tool, label, sourceOverride, piProvider, failSnapshot, failState) ==
    LET r0 == Call("save", tool, label, piProvider)
        verr == validateManagerToolAndLabel(tool, label)
        src == resolveSourcePath(rt, tool, sourceOverride)
        r1 == [r0 EXCEPT !.accessed = {"source"}, !.source = src.path,
                         !.steps = FirstSteps(saveOrder, 1)]
        read == ReadFile(rt, src.path)
        filtered == IF tool = ToolPi /\ piProvider # ""
                    THEN filterPIAuthProviders(read.raw, piProvider)
                    ELSE [err |-> "", raw |-> read.raw, available |-> <<>>]
        raw == filtered.raw
        path == snapshotPath(tool, label)
        wrote == atomicWriteFile(sn, path, raw, failSnapshot)
        r2 == [r1 EXCEPT !.accessed = {"source", "snapshot"}, !.raw = raw]
        hash == sha256Hex(raw)
        state == loadState(sf)
        key == stateKey(tool, label)
        hadPrev == key \in DOMAIN state.Entries
        prev == IF hadPrev THEN state.Entries[key] ELSE ZeroEntry
        changed == changedSinceLastSave(hadPrev, prev, hash)
        insight == hydrateIdentityFromCache(inspectAuth(tool, raw), state)
        state1 == rememberIdentity(state, insight, clock)
        state2 == [state1 EXCEPT !.Entries =
                     Put(@, key, upsertEntry(prev, tool, label, src.path, path, hash, clock))]
        saved == saveState(sf, state2, failState)
        r3 == [r2 EXCEPT !.accessed = {"source", "snapshot", "state"},
                         !.steps = FirstSteps(saveOrder, 3)]
    IN
    IF verr # "" THEN Outcome(rt, sn, sf, [r0 EXCEPT !.err = verr])
    ELSE IF src.err # "" THEN Outcome(rt, sn, sf, [r1 EXCEPT !.err = src.err])
    ELSE IF ReadFails(read)
         THEN Outcome(rt, sn, sf, [r1 EXCEPT !.err = "reading source auth file"])
    ELSE IF ~validateJSONObject(read.raw)
         THEN Outcome(rt, sn, sf, [r1 EXCEPT !.err = "source is not valid JSON object"])
    ELSE IF filtered.err # ""
         THEN Outcome(rt, sn, sf, [r1 EXCEPT !.err = filtered.err,
                                             !.available = filtered.available])
    ELSE IF wrote.err # "" THEN Outcome(rt, sn, sf, [r2 EXCEPT !.err = "writing snapshot"])
    ELSE IF loadStateErr(sf) # ""
         THEN Outcome(rt, wrote.dir, sf, [r3 EXCEPT !.err = loadStateErr(sf)])
    ELSE IF saved.err # ""
         THEN Outcome(rt, wrote.dir, sf, [r3 EXCEPT !.err = "saving state"])
    ELSE Outcome(rt, wrote.dir, saved.dir,
                 [r3 EXCEPT !.ok = TRUE, !.ChangedSinceLastSave = changed,
                            !.Insight = insight, !.steps = FirstSteps(saveOrder, 4)])

(***************************************************************************)
(* Manager.use                                                             *)
(***************************************************************************)
\* readOptionalFile: [exists, raw]; a missing file is a normal result
readOptionalFile(dir, path) == ReadFile(dir, path)

\* a rollback that reports success and leaves the new target in place
rollbackUseTargetWrite_KeepsNewTarget(dir, target, previousRaw, hadPrevious, failAt) ==
    [err |-> "", dir |-> dir]

\* a rollback that removes the target whether or not it existed before the call
rollbackUseTargetWrite_AlwaysRemoves(dir, target, previousRaw, hadPrevious, failAt) ==
    IF failAt # "none" /\ target \in DOMAIN dir
    THEN [err |-> "removing new target file", dir |-> dir]
    ELSE [err |-> "", dir |-> Remove(dir, target)]

\* rollbackUseTargetWrite: [err, dir]; failAt # "none" makes the restoring write
\* (or the removal of the new file) fail
rollbackUseTargetWrite(dir, target, previousRaw, hadPrevious, failAt) ==
    IF hadPrevious THEN
        LET w == atomicWriteFile(dir, target, previousRaw, failAt) IN
        IF w.err # "" THEN [err |-> "restoring previous target content", dir |-> dir]
        ELSE [err |-> "", dir |-> w.dir]
    ELSE IF failAt # "none" /\ target \in DOMAIN dir
         THEN [err |-> "removing new target file", dir |-> dir]
    ELSE [err |-> "", dir |-> Remove(dir, target)]

\* the bytes whose digest use compares with the entry's last-used digest and records
useDigestInput(snapshotRaw, snapshotToApply) == snapshotToApply

\* the change signal of use, from the entry's last-used digest and that digest
changeSignal(lastUsedSHA, hash) ==
    IF lastUsedSHA = NoSHA THEN "first use"
    ELSE IF lastUsedSHA = hash THEN "unchanged since last use"
    ELSE "changed since last use (likely refreshed)"

use(rt, sn, sf, clock, tool, label, targetOverride, piProvider, failTarget, failState, failRollback) ==
    LET r0 == Call("use", tool, label, piProvider)
        verr == validateManagerToolAndLabel(tool, label)
        state == loadState(sf)
        key == stateKey(tool, label)
        ok == hasEntry(state, key)
        entry == IF key \in DOMAIN state.Entries THEN state.Entries[key] ELSE ZeroEntry
        r1 == [r0 EXCEPT !.accessed = {"state"}, !.steps = FirstSteps(useOrder, 1)]
        snap == ReadFile(sn, entry.SnapshotPath)
        snapshotRaw == snap.raw
        r2 == [r1 EXCEPT !.accessed = {"state", "snapshot"},
                         !.steps = FirstSteps(useOrder, 2)]
        filtered == IF tool = ToolPi /\ piProvider # ""
                    THEN filterPIAuthProviders(snapshotRaw, piProvider)
                    ELSE [err |-> "", raw |-> snapshotRaw, available |-> <<>>]
        snapshotToApply == filtered.raw
        target == expandPath(IF targetOverride = "" THEN DefaultRuntime(tool)
                             ELSE targetOverride)
        previous == readOptionalFile(rt, target.path)
        r3 == [r2 EXCEPT !.accessed = {"state", "snapshot", "target"},
                         !.raw = snapshotToApply, !.target = target.path,
                         !.steps = FirstSteps(useOrder, 3)]
        merged == IF tool = ToolPi THEN mergePIAuthWithTarget(snapshotToApply, rt, target.path)
                  ELSE [err |-> "", raw |-> snapshotToApply]
        wrote == atomicWriteFile(rt, target.path, merged.raw, failTarget)
        hash == sha256Hex(useDigestInput(snapshotRaw, snapshotToApply))
        signal == changeSignal(entry.LastUsedSHA, hash)
        insight == hydrateIdentityFromCache(inspectAuth(tool, snapshotToApply), state)
        state1 == rememberIdentity(state, insight, clock)
        state2 == [state1 EXCEPT !.Entries =
                     Put(@, key, [entry EXCEPT !.LastUsedAt = nowISO(clock),
                                               !.LastUsedSHA = hash])]
        saved == saveState(sf, state2, failState)
        undo == rollbackUseTargetWrite(wrote.dir, target.path, previous.raw,
                                       previous.exists, failRollback)
        r4 == [r3 EXCEPT !.wroteTarget = TRUE, !.steps = FirstSteps(useOrder, 4)]
    IN
    IF verr # "" THEN Outcome(rt, sn, sf, [r0 EXCEPT !.err = verr])
    ELSE IF loadStateErr(sf) # "" THEN Outcome(rt, sn, sf, [r1 EXCEPT !.err = loadStateErr(sf)])
    ELSE IF ~ok
         THEN Outcome(rt, sn, sf,
                      [r1 EXCEPT !.err = "no saved profile",
                                 !.command = <<"ags", "save", tool, "--label", label>>])
    ELSE IF ~snap.exists
         THEN Outcome(rt, sn, sf, [r2 EXCEPT !.err = "reading snapshot file"])
    ELSE IF ~validateJSONObject(snapshotRaw)
         THEN Outcome(rt, sn, sf, [r2 EXCEPT !.err = "snapshot JSON invalid"])
    ELSE IF filtered.err # ""
         THEN Outcome(rt, sn, sf, [r2 EXCEPT !.err = filtered.err,
                                             !.available = filtered.available])
    ELSE IF target.err # "" THEN Outcome(rt, sn, sf, [r2 EXCEPT !.err = target.err])
    ELSE IF ReadFails(previous)
         THEN Outcome(rt, sn, sf, [r3 EXCEPT !.err = "reading existing target auth file"])
    ELSE IF merged.err # ""
         THEN Outcome(rt, sn, sf, [r3 EXCEPT !.err = "merging pi auth file"])
    ELSE IF wrote.err # ""
         THEN Outcome(rt, sn, sf, [r3 EXCEPT !.err = "writing target auth file"])
    ELSE IF saved.err # "" THEN
        IF undo.err # ""
        THEN Outcome(wrote.dir, sn, sf,
                     [r4 EXCEPT !.err = "saving state after writing target",
                                !.rollback = "failed"])
        ELSE Outcome(undo.dir, sn, sf,
                     [r4 EXCEPT !.err = "saving state after writing target",
                                !.rollback = "done",
                                !.steps = FirstSteps(useOrder, 4) \o <<"restore target">>])
    ELSE Outcome(wrote.dir, sn, saved.dir,
                 [r4 EXCEPT !.ok = TRUE, !.ChangeSinceLastUse = signal,
                            !.Insight = insight, !.steps = FirstSteps(useOrder, 5)])

(***************************************************************************)
(* Manager.Delete                                                          *)
(***************************************************************************)
\* a removal that reports a missing snapshot file as an error
removeSnapshot_MissingFails(sn, path, fail) ==
    IF path \notin DOMAIN sn \/ fail
    THEN [err |-> "deleting snapshot file", deleted |-> FALSE, dir |-> sn]
    ELSE [err |-> "", deleted |-> TRUE, dir |-> Remove(sn, path)]

\* os.Remove(entry.SnapshotPath) and what Delete makes of its error:
\* [err, deleted, dir]; fail makes the removal of an existing file fail
removeSnapshot(sn, path, fail) ==
    IF path \notin DOMAIN sn THEN [err |-> "", deleted |-> FALSE, dir |-> sn]
    ELSE IF fail THEN [err |-> "deleting snapshot file", deleted |-> FALSE, dir |-> sn]
    ELSE [err |-> "", deleted |-> TRUE, dir |-> Remove(sn, path)]

\* a Delete that leaves the entry in the state document
deleteEntry_KeepsEntry(entries, key) == entries

\* delete(state.Entries, key)
deleteEntry(entries, key) == Remove(entries, key)

delete(rt, sn, sf, tool, label, failRemove, failState) ==
    LET r0 == Call("delete", tool, label, "")
        verr == validateManagerToolAndLabel(tool, label)
        state == loadState(sf)
        key == stateKey(tool, label)
        ok == hasEntry(state, key)
        entry == IF key \in DOMAIN state.Entries THEN state.Entries[key] ELSE ZeroEntry
        r1 == [r0 EXCEPT !.accessed = {"state"}, !.steps = FirstSteps(deleteOrder, 1)]
        removed == removeSnapshot(sn, entry.SnapshotPath, failRemove)
        r2 == [r1 EXCEPT !.accessed = {"state", "snapshot"}]
        \* a snapshot file that is already gone is not removed
        done == SelectSeq(FirstSteps(deleteOrder, 2),
                          LAMBDA e : e # "remove snapshot" \/ removed.deleted)
        state1 == [state EXCEPT !.Entries = deleteEntry(@, key)]
        saved == saveState(sf, state1, failState)
    IN
    IF verr # "" THEN Outcome(rt, sn, sf, [r0 EXCEPT !.err = verr])
    ELSE IF loadStateErr(sf) # "" THEN Outcome(rt, sn, sf, [r1 EXCEPT !.err = loadStateErr(sf)])
    ELSE IF ~ok THEN Outcome(rt, sn, sf, [r1 EXCEPT !.err = "no saved snapshot"])
    ELSE IF removed.err # "" THEN Outcome(rt, sn, sf, [r2 EXCEPT !.err = removed.err])
    ELSE IF saved.err # ""
         THEN Outcome(rt, removed.dir, sf, [r2 EXCEPT !.err = "saving state", !.steps = done])
    ELSE Outcome(rt, removed.dir, saved.dir,
                 [r2 EXCEPT !.ok = TRUE, !.SnapshotDeleted = removed.deleted,
                            !.steps = done \o SubSeq(deleteOrder, 3, 3)])

(***************************************************************************)
(* Manager.Active                                                          *)
(***************************************************************************)
\* byte order of the characters of a label ("," is the separator strings.Join puts in)
CharRank(c) ==
    CASE c = "," -> 1
      [] c = "-" -> 2
      [] c = "." -> 3
      [] c = "_" -> 5
      [] c = "w" -> 6
      [] OTHER -> 4

\* a < b for Go strings
RECURSIVE StringLess(_, _)
StringLess(a, b) ==
    IF b = <<>> THEN FALSE
    ELSE IF a = <<>> THEN TRUE
    ELSE IF Head(a) # Head(b) THEN CharRank(Head(a)) < CharRank(Head(b))
    ELSE StringLess(Tail(a), Tail(b))

\* insertion of x into a sequence sorted by less(_, _)
RECURSIVE InsertSorted(_, _, _)
InsertSorted(less(_, _), x, sorted) ==
    IF sorted = <<>> THEN <<x>>
    ELSE IF less(x, Head(sorted)) THEN <<x>> \o sorted
    ELSE <<Head(sorted)>> \o InsertSorted(less, x, Tail(sorted))

RECURSIVE SortBy(_, _)
SortBy(less(_, _), seq) ==
    IF seq = <<>> THEN <<>> ELSE InsertSorted(less, Head(seq), SortBy(less, Tail(seq)))

\* a sort that leaves the labels in the order they were found
sortStrings_NoSort(labels) == labels

\* sort.Strings
sortStrings(labels) == SortBy(StringLess, labels)

\* strings.Join(labels, ",")
RECURSIVE stringsJoin(_)
stringsJoin(labels) ==
    IF labels = <<>> THEN <<>>
    ELSE IF Len(labels) = 1 THEN labels[1]
    ELSE labels[1] \o <<",">> \o stringsJoin(Tail(labels))

\* the orders in which a range over a map may visit its keys
RECURSIVE Orders(_)
Orders(keys) ==
    IF keys = {} THEN {<<>>}
    ELSE UNION {{<<k>> \o rest : rest \in Orders(keys \ {k})} : k \in keys}

\* a subset test that a snapshot with no provider passes
piProviderSubsetMatch_EmptyMatches(snapshotObj, runtimeObj) ==
    LET providers == {k \in JsonKeys : snapshotObj[k] # None} IN
    \A k \in providers : runtimeObj[k] # None /\ snapshotObj[k] = runtimeObj[k]

piProviderSubsetMatch(snapshotObj, runtimeObj) ==
    LET providers == {k \in JsonKeys : snapshotObj[k] # None} IN
    /\ providers # {}
    /\ \A k \in providers : runtimeObj[k] # None /\ snapshotObj[k] = runtimeObj[k]

ActiveItem(tool, label, status, runtimePath, details) ==
    [Tool |-> tool, ActiveLabel |-> label, Status |-> status, RuntimePath |-> runtimePath,
     Details |-> details]

\* which of 0, 1 or more matched labels Active reports
activeItemOfMatches(tool, runtimePath, matchedLabels) ==
    IF Len(matchedLabels) = 0
    THEN ActiveItem(tool, <<>>, "no matching saved profile", runtimePath, <<>>)
    ELSE IF Len(matchedLabels) = 1
    THEN ActiveItem(tool, matchedLabels[1], "match", runtimePath, <<>>)
    ELSE ActiveItem(tool, stringsJoin(matchedLabels), "ambiguous", runtimePath,
                    <<"multiple saved labels match current runtime auth">>)

\* the body of Active's loop for one tool; order is the order in which the range over
\* state.Entries visits the keys
\* a comparison with the digest of the last use in place of the digest of the save
entryMatchesHash_LastUsed(entry, runtimeHash) == entry.LastUsedSHA = runtimeHash

\* the comparison of a single-token tool's entry with the runtime file's digest
entryMatchesHash(entry, runtimeHash) == entry.SHA256 = runtimeHash

\* an Active that reads the runtime file of a tool that has no saved entry
activeReadFails_BeforeEntries(rt, state, tool) == ReadFails(ReadFile(rt, DefaultRuntime(tool)))

\* Active fails at tool: the tool has saved entries and its runtime file cannot be read
activeReadFails(rt, state, tool) ==
    /\ \E k \in DOMAIN state.Entries :
          ParseTool(state.Entries[k].Tool) /\ state.Entries[k].Tool = tool
    /\ ReadFails(ReadFile(rt, DefaultRuntime(tool)))

activeItemOfTool(rt, sn, state, tool, order) ==
    LET runtimePath == DefaultRuntime(tool)
        visited == [i \in 1..Len(order) |-> state.Entries[order[i]]]
        OfTool(entry) == ParseTool(entry.Tool) /\ entry.Tool = tool
        toolEntries == SelectSeq(visited, OfTool)
        runtimeRead == ReadFile(rt, runtimePath)
        runtimeRaw == runtimeRead.raw
        PiMatch(entry) ==
            LET snap == ReadFile(sn, entry.SnapshotPath) IN
            /\ snap.exists
            /\ validateJSONObject(snap.raw)
            /\ piProviderSubsetMatch(Unmarshal(snap.raw), Unmarshal(runtimeRaw))
        HashMatch(entry) == entryMatchesHash(entry, sha256Hex(runtimeRaw))
        matched == IF tool = ToolPi THEN SelectSeq(toolEntries, PiMatch)
                   ELSE SelectSeq(toolEntries, HashMatch)
        matchedLabels == sortStrings([i \in 1..Len(matched) |-> matched[i].Label])
    IN
    IF Len(toolEntries) = 0 THEN ActiveItem(tool, <<>>, "no saved profiles", runtimePath, <<>>)
    ELSE IF ~runtimeRead.exists
         THEN ActiveItem(tool, <<>>, "runtime auth file missing", runtimePath, <<>>)
    ELSE IF ~validateJSONObject(runtimeRaw)
         THEN ActiveItem(tool, <<>>, "runtime auth JSON invalid", runtimePath, <<>>)
    ELSE activeItemOfMatches(tool, runtimePath, matchedLabels)

\* Manager.Active(toolFilter); toolFilter = "" is the nil filter
active(rt, sn, sf, toolFilter, order) ==
    LET r0 == [Call("active", toolFilter, <<>>, "") EXCEPT !.accessed = {}]
        verr == IF toolFilter = "" THEN "" ELSE validateManagerTool(toolFilter)
        state == loadState(sf)
        tools == IF toolFilter = "" THEN <<ToolCodex, ToolPi>> ELSE <<toolFilter>>
        items == [i \in 1..Len(tools) |-> activeItemOfTool(rt, sn, state, tools[i], order)]
    IN
    IF verr # "" THEN Outcome(rt, sn, sf, [r0 EXCEPT !.err = verr])
    ELSE IF loadStateErr(sf) # ""
         THEN Outcome(rt, sn, sf, [r0 EXCEPT !.err = loadStateErr(sf), !.accessed = {"state"},
                                             !.steps = <<"read state">>])
    ELSE IF \E i \in 1..Len(tools) : activeReadFails(rt, state, tools[i])
         THEN Outcome(rt, sn, sf, [r0 EXCEPT !.err = "reading runtime auth file",
                                             !.accessed = {"state", "snapshot", "runtime"},
                                             !.steps = <<"read state", "read runtime">>])
    ELSE Outcome(rt, sn, sf, [r0 EXCEPT !.ok = TRUE, !.items = items,
                                        !.accessed = {"state", "snapshot", "runtime"},
                                        !.steps = <<"read state", "read runtime",
                                                    "read snapshot">>])

(***************************************************************************)
(* Manager.List                                                            *)
(***************************************************************************)
\* byte order of the tool names
ToolRank(tool) ==
    CASE tool = ToolClaude -> 1
      [] tool = ToolCodex -> 2
      [] tool = ToolPi -> 3
      [] OTHER -> 0

\* a less function that compares the labels only
listItemLess_ByLabelOnly(a, b) == StringLess(a.Label, b.Label)

\* the less function of List's sort.Slice: by tool, then by label
listItemLess(a, b) ==
    IF a.Tool = b.Tool THEN StringLess(a.Label, b.Label)
    ELSE ToolRank(a.Tool) < ToolRank(b.Tool)

\* the insight of an item: of the snapshot's bytes, or "snapshot missing or unreadable"
\* ("inspected" stands for the status and the needs_refresh that inspectAuth computes)
listInsight(sn, entry) ==
    LET read == ReadFile(sn, entry.SnapshotPath) IN
    IF read.exists /\ ~ReadFails(read)
    THEN [Status |-> "inspected", NeedsRefresh |-> "inspected", Details |-> <<>>,
          Identity |-> inspectAuth(entry.Tool, read.raw)]
    ELSE [Status |-> "unknown", NeedsRefresh |-> "unknown",
          Details |-> <<"snapshot missing or unreadable">>, Identity |-> NoInsight]

ListItem(sn, entry) ==
    [Tool |-> entry.Tool, Label |-> entry.Label, SavedAt |-> entry.SavedAt,
     LastUsedAt |-> entry.LastUsedAt, Snapshot |-> entry.SnapshotPath,
     AuthInsight |-> listInsight(sn, entry)]

\* Manager.List(toolFilter); toolFilter = "" is the nil filter; order is the order in
\* which the range over state.Entries visits the keys
list(rt, sn, sf, toolFilter, order) ==
    LET r0 == [Call("list", toolFilter, <<>>, "") EXCEPT !.accessed = {}]
        verr == IF toolFilter = "" THEN "" ELSE validateManagerTool(toolFilter)
        state == loadState(sf)
        visited == [i \in 1..Len(order) |-> state.Entries[order[i]]]
        Listed(entry) == ParseTool(entry.Tool) /\ (toolFilter = "" \/ toolFilter = entry.Tool)
        kept == SelectSeq(visited, Listed)
        items == SortBy(listItemLess, [i \in 1..Len(kept) |-> ListItem(sn, kept[i])])
    IN
    IF verr # "" THEN Outcome(rt, sn, sf, [r0 EXCEPT !.err = verr])
    ELSE IF loadStateErr(sf) # ""
         THEN Outcome(rt, sn, sf, [r0 EXCEPT !.err = loadStateErr(sf), !.accessed = {"state"},
                                             !.steps = <<"read state">>])
    ELSE Outcome(rt, sn, sf, [r0 EXCEPT !.ok = TRUE, !.items = items,
                                        !.accessed = {"state", "snapshot"},
                                        !.steps = <<"read state", "read snapshot">>])

(***************************************************************************)
(* Inputs of the calls.                                                    *)
(***************************************************************************)
CodexPayload(v) == Obj(FALSE, [EmptyMap EXCEPT !["tokens"] = v])

PiPayload(codexVal, anthropicVal) ==
    Obj(FALSE, [EmptyMap EXCEPT !["openai-codex"] = codexVal, !["anthropic"] = anthropicVal])

CodexPayloads == {CodexPayload(v) : v \in TokenVals}

PiPayloads == {PiPayload("t1", "t1~"), PiPayload("t2", "t1"), PiPayload("t2", None)}

\* what a tool, or the user, may write at a path outside the data root
ExternalPayloads(path) ==
    CASE path = HomeCodexAuth -> {CodexPayload("B")}
      [] path = HomePiAuth -> PiPayloads
      [] OTHER -> {CodexPayload("C"), PiPayload("t2", "t1"), NotJSONObject}

ToolInputs == {ToolCodex, ToolPi}
CoreLabels == {<<"w">>}
\* calls that validation must reject
InvalidCalls == {<<"bogus", <<"w">>>>, <<ToolCodex, <<>>>>, <<ToolPi, <<"/">>>>}
PathOverrides == {"", TildeAlt}

\* the provider selector is read for the multi-provider tool only
ProviderInputs(tool) == IF tool = ToolPi THEN {"", "anthropic", "nomatch"} ELSE {""}

\* which steps of a call fail: <<snapshot write, state write>> of save,
\* <<target write, state write, rollback>> of use, <<snapshot removal, state write>> of delete
SaveFaults == {<<"none", "none">>, <<"rename", "none">>, <<"none", "rename">>}
UseFaults == {<<"none", "none", "none">>, <<"write", "none", "none">>,
              <<"none", "serialize", "none">>, <<"none", "rename", "rename">>}
DeleteFaults == {<<FALSE, "none">>, <<TRUE, "none">>, <<FALSE, "rename">>}

NoBytes == [exists |-> FALSE, bytes |-> <<>>, mode |-> ""]

\* no atomicWriteFile call in progress
IdleAW ==
    [pc |-> "idle", raw |-> <<>>, mode |-> "", destBefore |-> NoBytes, dest |-> NoBytes,
     dirExists |-> FALSE, tmp |-> NoBytes, tmpOpen |-> FALSE, tmpCreated |-> FALSE,
     removeFailed |-> FALSE, err |-> ""]

NoChain == [stage |-> "none", tool |-> "", label |-> <<>>]
NoHist == [use |-> <<>>, seed |-> <<>>, ever |-> {}, chain |-> NoChain, dropped |-> {}]

\* the invocations that may run at the same time on one data root
Procs == {"p1", "p2"}

\* an invocation that is not inside a call
IdleProc ==
    [pc |-> "idle", op |-> "", label |-> <<>>, raw |-> NoFile, sourcePath |-> "",
     loaded |-> defaultState, deleted |-> FALSE, ok |-> FALSE, err |-> "", calls |-> 0]

\* last: the invocation whose state document was renamed into place last
NoRace == [procs |-> [p \in Procs |-> IdleProc], last |-> "none"]

\* no evaluation yet
NoCalc == [fn |-> "none"]

Init ==
    /\ runtime \in {<<>>,
                    [p \in {HomeCodexAuth, HomePiAuth} |->
                        IF p = HomeCodexAuth THEN CodexPayload("A") ELSE PiPayload("t1", "t1~")]}
    /\ snapshots = <<>>
    /\ stateFile = <<>>
    /\ now = 0
    /\ ops = 0
    /\ res = NoRes
    /\ hist = NoHist
    /\ aw = IdleAW
    /\ race = NoRace
    /\ calc = NoCalc

\* hist.use of a key: "none" (no entry), "new" (no successful use since the entry was
\* created), "used" (no successful save since the last successful use), "resaved" (one
\* successful save since the last successful use, and it reported a change), "other"
UseHistAfter(h, r) ==
    LET key == stateKey(r.tool, r.label)
        before == IF key \in DOMAIN h THEN h[key] ELSE "none"
    IN
    IF ~r.ok THEN h
    ELSE CASE r.op = "use" -> Put(h, key, "used")
           [] r.op = "delete" -> [k \in DOMAIN h \ {key} |-> h[k]]
           [] r.op = "save" ->
                Put(h, key,
                    CASE before \in {"none", "new"} -> "new"
                      [] before = "used" /\ r.ChangedSinceLastSave -> "resaved"
                      [] OTHER -> "other")
           [] OTHER -> h

\* hist.seed of an account id: the email and plan of the last successful save of a
\* payload carrying the account id with both, and whether every successful save or use
\* since then of a payload carrying the account id carried that email and plan or neither.
\* hist.ever: every <<account id, email, plan>> a successful save carried in one payload.
SeedAfter(seed, r) ==
    LET p == inspectAuth(r.tool, r.raw) IN
    IF ~r.ok \/ r.op \notin {"save", "use"} \/ p.AccountID = "" THEN seed
    ELSE IF r.op = "save" /\ p.AccountEmail # "" /\ p.AccountPlan # ""
         THEN Put(seed, p.AccountID,
                  [Email |-> p.AccountEmail, Plan |-> p.AccountPlan, clean |-> TRUE])
    ELSE IF /\ p.AccountID \in DOMAIN seed
            /\ p.AccountEmail # "" \/ p.AccountPlan # ""
            /\ <<p.AccountEmail, p.AccountPlan>> #
                 <<seed[p.AccountID].Email, seed[p.AccountID].Plan>>
         THEN [seed EXCEPT ![p.AccountID].clean = FALSE]
    ELSE seed

\* the calls just made: "saved" after a successful save of (tool, label), "used" after a
\* successful use of it to the default target right after that save, "active" after a
\* successful active that covers the tool right after that use, "none" otherwise
ChainAfter(chain, r) ==
    IF r.op = "save" /\ r.ok THEN [stage |-> "saved", tool |-> r.tool, label |-> r.label]
    ELSE IF /\ r.op = "use" /\ r.ok /\ r.target = DefaultRuntime(r.tool)
            /\ chain = [stage |-> "saved", tool |-> r.tool, label |-> r.label]
         THEN [chain EXCEPT !.stage = "used"]
    ELSE IF /\ r.op = "active" /\ r.ok /\ chain.stage = "used"
            /\ r.tool \in {"", chain.tool}
         THEN [chain EXCEPT !.stage = "active"]
    ELSE NoChain

EverAfter(ever, r) ==
    LET p == inspectAuth(r.tool, r.raw) IN
    IF r.ok /\ r.op = "save" /\ p.AccountID # "" /\ p.AccountEmail # "" /\ p.AccountPlan # ""
    THEN ever \cup {<<p.AccountID, p.AccountEmail, p.AccountPlan>>}
    ELSE ever

\* hist.dropped: the (tool, label) pairs that were deleted after they had been used
DroppedAfter(dropped, used, r) ==
    IF r.ok /\ r.op = "delete" /\ <<r.tool, r.label>> \in DOMAIN used
       /\ used[<<r.tool, r.label>>] # "new"
    THEN dropped \cup {<<r.tool, r.label>>}
    ELSE dropped

\* a call's outcome becomes the next state; the result also records what the files of
\* the call's (tool, label) and target held when the call started
Apply(o) ==
    LET r == o.res
        key == stateKey(r.tool, r.label)
        entries == loadState(stateFile).Entries
        observed == [r EXCEPT
            !.hadEntry = key \in DOMAIN entries,
            !.entryBefore = IF key \in DOMAIN entries THEN entries[key] ELSE ZeroEntry,
            !.snapBefore = ReadFile(snapshots, snapshotPath(r.tool, r.label)).raw,
            !.targetBefore = ReadFile(runtime, r.target).raw,
            !.useBefore = IF key \in DOMAIN hist.use THEN hist.use[key] ELSE "none",
            !.sourceBefore = ReadFile(runtime, r.source).raw,
            !.stateBefore = IF StatePath \notin DOMAIN stateFile THEN "missing"
                            ELSE IF IsForeignDoc(stateFile[StatePath])
                                 THEN stateFile[StatePath].json
                            ELSE "object",
            !.at = now]
    IN
    /\ runtime' = o.runtime
    /\ snapshots' = o.snapshots
    /\ stateFile' = o.stateFile
    /\ res' = observed
    /\ hist' = [use |-> UseHistAfter(hist.use, r), seed |-> SeedAfter(hist.seed, r),
                ever |-> EverAfter(hist.ever, r), chain |-> ChainAfter(hist.chain, r),
                dropped |-> DroppedAfter(hist.dropped, hist.use, r)]
    /\ ops' = ops + 1
    /\ UNCHANGED <<now, aw, race, calc>>

Save(tool, label, sourceOverride, piProvider, failSnapshot, failState) ==
    /\ Apply(save(runtime, snapshots, stateFile, now, tool, label, sourceOverride,
                  piProvider, failSnapshot, failState))

Use(tool, label, targetOverride, piProvider, failTarget, failState, failRollback) ==
    /\ Apply(use(runtime, snapshots, stateFile, now, tool, label, targetOverride,
                 piProvider, failTarget, failState, failRollback))

Delete(tool, label, failRemove, failState) ==
    /\ Apply(delete(runtime, snapshots, stateFile, tool, label, failRemove, failState))

\* the environment: a tool logs in or refreshes its token, or the user edits a file
ExternalWrite(path, raw) ==
    /\ Apply(Outcome(Put(runtime, path, raw), snapshots, stateFile, Call("external", "", <<>>, "")))

Next ==
    \/ /\ ops < MaxOps
       /\ \E tool \in ToolInputs, label \in CoreLabels, src \in PathOverrides, f \in SaveFaults :
             \E prov \in ProviderInputs(tool) : Save(tool, label, src, prov, f[1], f[2])
    \/ /\ ops < MaxOps
       /\ \E tool \in ToolInputs, label \in CoreLabels, tgt \in PathOverrides, f \in UseFaults :
             \E prov \in ProviderInputs(tool) : Use(tool, label, tgt, prov, f[1], f[2], f[3])
    \/ /\ ops < MaxOps
       /\ \E tool \in ToolInputs, label \in CoreLabels, f \in DeleteFaults :
             Delete(tool, label, f[1], f[2])
    \/ /\ ops < MaxOps
       /\ \E c \in InvalidCalls : Save(c[1], c[2], "", "", "none", "none")
    \/ /\ ops < MaxOps
       /\ \E c \in InvalidCalls : Use(c[1], c[2], "", "", "none", "none", "none")
    \/ /\ ops < MaxOps
       /\ \E c \in InvalidCalls : Delete(c[1], c[2], FALSE, "none")
    \/ /\ ops < MaxOps
       /\ \E path \in {HomeCodexAuth, HomePiAuth, HomeAlt} : \E raw \in ExternalPayloads(path) :
             ExternalWrite(path, raw)

Spec == Init /\ [][Next]_vars

(***************************************************************************)
(* The single-token tool under every label up to MaxLabelLen characters.   *)
(***************************************************************************)
MaxLabelOps == 3

NextLabels ==
    \/ /\ ops < MaxLabelOps
       /\ \E tool \in {ToolCodex, "bogus"}, label \in AllLabels, src \in PathOverrides :
             Save(tool, label, src, "", "none", "none")
    \/ /\ ops < MaxLabelOps
       /\ \E tool \in {ToolCodex, "bogus"}, label \in AllLabels :
             Use(tool, label, "", "", "none", "none", "none")
    \/ /\ ops < MaxLabelOps
       /\ \E tool \in {ToolCodex, "bogus"}, label \in AllLabels :
             Delete(tool, label, FALSE, "none")
    \/ /\ ops < MaxLabelOps
       /\ \E raw \in {CodexPayload("B")} : ExternalWrite(HomeAlt, raw)

SpecLabels == Init /\ [][NextLabels]_vars

(***************************************************************************)
(* The single-token tool under two labels, with payloads of one account.   *)
(***************************************************************************)
IdentityLabels == {<<"w">>, <<"w", "w">>}

MaxIdentityOps == 5

NextIdentity ==
    \/ /\ ops < MaxIdentityOps
       /\ \E label \in IdentityLabels, src \in PathOverrides, f \in {"none", "rename"} :
             Save(ToolCodex, label, src, "", "none", f)
    \/ /\ ops < MaxIdentityOps
       /\ \E label \in IdentityLabels, tgt \in PathOverrides, f \in {"none", "rename"} :
             Use(ToolCodex, label, tgt, "", "none", f, "none")
    \/ /\ ops < MaxIdentityOps
       /\ \E label \in IdentityLabels : Delete(ToolCodex, label, FALSE, "none")
    \/ /\ ops < MaxIdentityOps
       /\ \E path \in {HomeCodexAuth, HomeAlt} : \E raw \in CodexPayloads :
             ExternalWrite(path, raw)

SpecIdentity == Init /\ [][NextIdentity]_vars

(***************************************************************************)
(* atomicWriteFile(path, raw, mode), one file-system call at a time.  The  *)
(* bytes are sequences of bits; every file-system call may fail.           *)
(***************************************************************************)
ByteStrings == SeqsUpTo({0, 1}, MaxBytes)
FileModes == {"0600", "0644"}

ProperPrefixes(b) == {SubSeq(b, 1, n) : n \in 0..(Len(b) - 1)}

\* the step machine touches nothing but the call in progress
AWFrame == UNCHANGED <<runtime, snapshots, stateFile, now, ops, res, hist, race, calc>>

\* a call starts: the destination is absent or holds some bytes
AWCall(old, raw, mode) ==
    /\ aw.pc = "idle"
    /\ aw' = [IdleAW EXCEPT !.pc = "mkdir", !.raw = raw, !.mode = mode,
                            !.destBefore = old, !.dest = old, !.dirExists = old.exists]
    /\ AWFrame

\* mkdirAll(dir, 0o700)
AWMkdirAll ==
    \/ /\ aw.pc = "mkdir"
       /\ aw' = [aw EXCEPT !.dirExists = TRUE, !.pc = "createTemp"]
       /\ AWFrame
    \/ /\ aw.pc = "mkdir"
       /\ ~aw.dirExists
       /\ aw' = [aw EXCEPT !.err = "creating parent directory", !.pc = "returned"]
       /\ AWFrame

\* createTemp(dir, ".ags-*"); on success the removal of the temp file is deferred
AWCreateTemp ==
    \/ /\ aw.pc = "createTemp"
       /\ aw' = [aw EXCEPT !.tmp = [exists |-> TRUE, bytes |-> <<>>, mode |-> "0600"],
                           !.tmpOpen = TRUE, !.tmpCreated = TRUE, !.pc = "write"]
       /\ AWFrame
    \/ /\ aw.pc = "createTemp"
       /\ aw' = [aw EXCEPT !.err = "creating temp file", !.pc = "returned"]
       /\ AWFrame

\* tmp.Write(raw); a failed write may leave any part of raw in the temp file
AWWrite ==
    \/ /\ aw.pc = "write"
       /\ aw' = [aw EXCEPT !.tmp.bytes = aw.raw, !.pc = "chmod"]
       /\ AWFrame
    \/ /\ aw.pc = "write"
       /\ \E part \in ProperPrefixes(aw.raw) \cup {<<>>} :
             aw' = [aw EXCEPT !.tmp.bytes = part, !.tmpOpen = FALSE,
                              !.err = "writing temp file", !.pc = "cleanup"]
       /\ AWFrame

\* tmp.Chmod(mode)
AWChmod ==
    \/ /\ aw.pc = "chmod"
       /\ aw' = [aw EXCEPT !.tmp.mode = aw.mode, !.pc = "close"]
       /\ AWFrame
    \/ /\ aw.pc = "chmod"
       /\ aw' = [aw EXCEPT !.tmpOpen = FALSE, !.err = "setting file mode", !.pc = "cleanup"]
       /\ AWFrame

\* tmp.Close()
AWClose ==
    \/ /\ aw.pc = "close"
       /\ aw' = [aw EXCEPT !.tmpOpen = FALSE, !.pc = "rename"]
       /\ AWFrame
    \/ /\ aw.pc = "close"
       /\ aw' = [aw EXCEPT !.err = "closing temp file", !.pc = "cleanup"]
       /\ AWFrame

\* renamePath(tmpName, path): the temp file replaces the destination
AWRename ==
    \/ /\ aw.pc = "rename"
       /\ aw' = [aw EXCEPT !.dest = aw.tmp, !.tmp = NoBytes, !.pc = "cleanup"]
       /\ AWFrame
    \/ /\ aw.pc = "rename"
       /\ aw' = [aw EXCEPT !.err = "replacing file atomically", !.pc = "cleanup"]
       /\ AWFrame

\* a return that leaves the temp file where it is
AWCleanup_LeavesTemp ==
    /\ aw.pc = "cleanup"
    /\ aw' = [aw EXCEPT !.tmpOpen = FALSE, !.pc = "returned"]
    /\ AWFrame

\* the deferred removePath(tmpName), run when the call returns; its error is dropped.
\* After a rename the temp name is gone and the removal has nothing to do.
AWCleanup ==
    \/ /\ aw.pc = "cleanup"
       /\ aw' = [aw EXCEPT !.tmp = NoBytes, !.tmpOpen = FALSE, !.pc = "returned"]
       /\ AWFrame
    \/ /\ aw.pc = "cleanup"
       /\ aw.tmp.exists
       /\ aw' = [aw EXCEPT !.tmpOpen = FALSE, !.removeFailed = TRUE, !.pc = "returned"]
       /\ AWFrame

NextAW ==
    \/ \E raw \in ByteStrings, mode \in FileModes : AWCall(NoBytes, raw, mode)
    \/ \E bytes \in ByteStrings, raw \in ByteStrings, mode \in FileModes :
          AWCall([exists |-> TRUE, bytes |-> bytes, mode |-> "0644"], raw, mode)
    \/ AWMkdirAll
    \/ AWCreateTemp
    \/ AWWrite
    \/ AWChmod
    \/ AWClose
    \/ AWRename
    \/ AWCleanup

SpecAW == Init /\ [][NextAW]_vars

(***************************************************************************)
(* Saved profiles against the runtime files: save, use, Delete and Active  *)
(* under two labels.                                                       *)
(***************************************************************************)
MaxActiveOps == 4
\* the bytes {}: a JSON object with no key
EmptyObject == Obj(FALSE, EmptyMap)
ActiveLabels == {<<"w">>, <<".">>}
ToolFilters == {"", ToolCodex, ToolPi, ToolClaude, "bogus"}

Active(toolFilter) ==
    \E order \in Orders(DOMAIN loadState(stateFile).Entries) :
        Apply(active(runtime, snapshots, stateFile, toolFilter, order))

\* the environment: a tool logs out and removes its runtime file
ExternalRemove(path) ==
    /\ path \in DOMAIN runtime
    /\ Apply(Outcome(Remove(runtime, path), snapshots, stateFile,
                     Call("external", "", <<>>, "")))

NextActive ==
    \/ /\ ops < MaxActiveOps
       /\ \E tool \in ToolInputs, label \in ActiveLabels :
             \E prov \in ProviderInputs(tool) \ {"nomatch"} :
                Save(tool, label, "", prov, "none", "none")
    \/ /\ ops < MaxActiveOps
       /\ \E tool \in ToolInputs, label \in ActiveLabels :
             Use(tool, label, "", "", "none", "none", "none")
    \/ /\ ops < MaxActiveOps
       /\ \E tool \in ToolInputs, label \in ActiveLabels : Delete(tool, label, FALSE, "none")
    \/ /\ ops < MaxActiveOps
       /\ \E path \in {HomeCodexAuth, HomePiAuth} :
             \E raw \in ExternalPayloads(path) \cup {NotJSONObject, EmptyObject, Unreadable} :
                ExternalWrite(path, raw)
    \/ /\ ops < MaxActiveOps
       /\ \E path \in {HomeCodexAuth, HomePiAuth} : ExternalRemove(path)
    \/ /\ ops < MaxActiveOps
       /\ \E toolFilter \in ToolFilters : Active(toolFilter)

SpecActive == Init /\ [][NextActive]_vars

(***************************************************************************)
(* The catalogue of saved profiles over time: save, use, Delete and List   *)
(* under two labels, with failing writes and a clock that advances.        *)
(***************************************************************************)
MaxCatalogOps == 4
CatalogTools == {ToolCodex}
MaxClock == 2

\* a List that writes the state document it has loaded back to the data root
List_WritesLoadedState(toolFilter) ==
    \E order \in Orders(DOMAIN loadState(stateFile).Entries) :
        Apply([list(runtime, snapshots, stateFile, toolFilter, order) EXCEPT
                 !.stateFile = saveState(stateFile, loadState(stateFile), "none").dir])

List(toolFilter) ==
    \E order \in Orders(DOMAIN loadState(stateFile).Entries) :
        Apply(list(runtime, snapshots, stateFile, toolFilter, order))

\* time passes between two calls
Tick ==
    /\ now < MaxClock
    /\ now' = now + 1
    /\ UNCHANGED <<runtime, snapshots, stateFile, ops, res, hist, aw, race, calc>>

NextCatalog ==
    \/ /\ ops < MaxCatalogOps
       /\ \E tool \in CatalogTools, label \in ActiveLabels, src \in PathOverrides :
             \E f \in SaveFaults : Save(tool, label, src, "", f[1], f[2])
    \/ /\ ops < MaxCatalogOps
       /\ \E tool \in CatalogTools, label \in ActiveLabels :
             Use(tool, label, "", "", "none", "none", "none")
    \/ /\ ops < MaxCatalogOps
       /\ \E tool \in CatalogTools, label \in ActiveLabels, f \in DeleteFaults :
             Delete(tool, label, f[1], f[2])
    \/ /\ ops < MaxCatalogOps
       /\ \E path \in {HomeCodexAuth, HomeAlt}, raw \in {CodexPayload("A"), CodexPayload("B")} :
             ExternalWrite(path, raw)
    \/ /\ ops < MaxCatalogOps
       /\ \E toolFilter \in ToolFilters : List(toolFilter)
    \/ Tick

SpecCatalog == Init /\ [][NextCatalog]_vars

(***************************************************************************)
(* The five operations together on one data root that nothing else         *)
(* modifies: save, use, Delete, List and Active, with failing writes; the  *)
(* tools rewrite their runtime files in between.                           *)
(***************************************************************************)
MaxStoreOps == 4

NextStore ==
    \/ /\ ops < MaxStoreOps
       /\ \E tool \in ToolInputs, label \in ActiveLabels, f \in SaveFaults :
             Save(tool, label, "", "", f[1], f[2])
    \/ /\ ops < MaxStoreOps
       /\ \E tool \in ToolInputs, label \in ActiveLabels, f \in UseFaults :
             Use(tool, label, "", "", f[1], f[2], f[3])
    \/ /\ ops < MaxStoreOps
       /\ \E tool \in ToolInputs, label \in ActiveLabels, f \in DeleteFaults :
             Delete(tool, label, f[1], f[2])
    \/ /\ ops < MaxStoreOps
       /\ \E path \in {HomeCodexAuth, HomePiAuth} :
             \E raw \in ExternalPayloads(path) \cup {Unreadable} : ExternalWrite(path, raw)
    \/ /\ ops < MaxStoreOps
       /\ \E toolFilter \in ToolFilters : List(toolFilter)
    \/ /\ ops < MaxStoreOps
       /\ \E toolFilter \in ToolFilters : Active(toolFilter)

SpecStore == Init /\ [][NextStore]_vars

(***************************************************************************)
(* One label of one tool over a longer time: saved, used, deleted and      *)
(* saved again with whatever the runtime file then holds, listed in        *)
(* between.                                                                *)
(***************************************************************************)
MaxReuseOps == 6

NextReuse ==
    \/ /\ ops < MaxReuseOps
       /\ \E label \in CoreLabels : Save(ToolCodex, label, "", "", "none", "none")
    \/ /\ ops < MaxReuseOps
       /\ \E label \in CoreLabels : Use(ToolCodex, label, "", "", "none", "none", "none")
    \/ /\ ops < MaxReuseOps
       /\ \E label \in CoreLabels, f \in DeleteFaults : Delete(ToolCodex, label, f[1], f[2])
    \/ /\ ops < MaxReuseOps
       /\ \E raw \in {CodexPayload("A"), CodexPayload("B")} : ExternalWrite(HomeCodexAuth, raw)
    \/ /\ ops < MaxReuseOps
       /\ List("")

SpecReuse == Init /\ [][NextReuse]_vars

(***************************************************************************)
(* The calls on files that something else has written: the runtime files,  *)
(* the snapshot files and the state document may hold any bytes.           *)
(***************************************************************************)
MaxParseOps == 3

ForeignJSON == {"null", "array", "scalar", "malformed"}

\* the user, or another program, overwrites a snapshot file
ExternalSnapshotWrite(tool, label, raw) ==
    /\ snapshotPath(tool, label) \in DOMAIN snapshots
    /\ Apply(Outcome(runtime, Put(snapshots, snapshotPath(tool, label), raw), stateFile,
                     Call("external", "", <<>>, "")))

\* the user, or another program, overwrites the state document
ExternalStateWrite(json) ==
    /\ Apply(Outcome(runtime, snapshots, Put(stateFile, StatePath, ForeignDoc(json)),
                     Call("external", "", <<>>, "")))

NextParse ==
    \/ /\ ops < MaxParseOps
       /\ \E tool \in ToolInputs, label \in CoreLabels :
             Save(tool, label, "", "", "none", "none")
    \/ /\ ops < MaxParseOps
       /\ \E tool \in ToolInputs, label \in CoreLabels :
             Use(tool, label, "", "", "none", "none", "none")
    \/ /\ ops < MaxParseOps
       /\ \E tool \in ToolInputs, label \in CoreLabels : Delete(tool, label, FALSE, "none")
    \/ /\ ops < MaxParseOps
       /\ \E toolFilter \in ToolFilters : List(toolFilter)
    \/ /\ ops < MaxParseOps
       /\ \E toolFilter \in ToolFilters : Active(toolFilter)
    \/ /\ ops < MaxParseOps
       /\ \E path \in {HomeCodexAuth, HomePiAuth} :
             \E raw \in ExternalPayloads(path) \cup {NotJSONObject} : ExternalWrite(path, raw)
    \/ /\ ops < MaxParseOps
       /\ \E tool \in ToolInputs, label \in CoreLabels :
             ExternalSnapshotWrite(tool, label, NotJSONObject)
    \/ /\ ops < MaxParseOps
       /\ \E json \in ForeignJSON : ExternalStateWrite(json)

SpecParse == Init /\ [][NextParse]_vars

(***************************************************************************)
(* The catalogue of two tools, over snapshot files that go missing and a   *)
(* state document that holds an entry of a tool this program does not know.*)
(***************************************************************************)
MaxListOps == 6

\* a snapshot file is removed, or replaced by something that cannot be read
ExternalSnapshotLoss(tool, label, unreadable) ==
    /\ snapshotPath(tool, label) \in DOMAIN snapshots
    /\ Apply(Outcome(runtime,
                     IF unreadable THEN Put(snapshots, snapshotPath(tool, label), Unreadable)
                     ELSE Remove(snapshots, snapshotPath(tool, label)),
                     stateFile, Call("external", "", <<>>, "")))

\* the state document gains an entry whose tool does not parse
ExternalStateEntry(tool, label) ==
    LET state == loadState(stateFile)
        entry == [ZeroEntry EXCEPT !.Tool = tool, !.Label = label,
                                   !.SnapshotPath = snapshotPath(tool, label),
                                   !.SavedAt = nowISO(now)]
    IN
    /\ stateKey(tool, label) \notin DOMAIN state.Entries
    /\ Apply(Outcome(runtime, snapshots,
                     Put(stateFile, StatePath,
                         [state EXCEPT !.Entries = Put(@, stateKey(tool, label), entry)]),
                     Call("external", "", <<>>, "")))

NextList ==
    \/ /\ ops < MaxListOps
       /\ \E tool \in ToolInputs, label \in ActiveLabels :
             Save(tool, label, "", "", "none", "none")
    \/ /\ ops < MaxListOps
       /\ ExternalWrite(HomeCodexAuth, CodexPayload("B"))
    \/ /\ ops < MaxListOps
       /\ ExternalWrite(HomePiAuth, PiPayload("t2", "t1"))
    \/ /\ ops < MaxListOps
       /\ \E tool \in ToolInputs, label \in CoreLabels, unreadable \in BOOLEAN :
             ExternalSnapshotLoss(tool, label, unreadable)
    \/ /\ ops < MaxListOps
       /\ ExternalStateEntry("unknown", <<"w">>)
    \/ /\ ops < MaxListOps
       /\ \E toolFilter \in ToolFilters : List(toolFilter)

SpecList == Init /\ [][NextList]_vars

(***************************************************************************)
(* Provider selectors: save and use of the multi-provider tool with a      *)
(* selector, over payloads whose keys differ in case.                      *)
(***************************************************************************)
MaxProviderOps == 4

ProviderSelectors ==
    {"anthropic", "ANTHROPIC", "codex", " Codex", "openai-codex", "OpenAI-Codex", "nomatch"}

\* payloads with the keys openai-codex, anthropic and Anthropic
ProviderPayloads ==
    {Obj(FALSE, [EmptyMap EXCEPT !["openai-codex"] = c, !["anthropic"] = a, !["Anthropic"] = b]) :
        c \in {None, "t2"}, a \in {None, "t1~"}, b \in {None, "t2"}}

NextProviders ==
    \/ /\ ops < MaxProviderOps
       /\ \E raw \in ProviderPayloads : ExternalWrite(HomePiAuth, raw)
    \/ /\ ops < MaxProviderOps
       /\ \E sel \in ProviderSelectors \cup {""} :
             Save(ToolPi, <<"w">>, "", sel, "none", "none")
    \/ /\ ops < MaxProviderOps
       /\ \E sel \in ProviderSelectors \cup {""} :
             Use(ToolPi, <<"w">>, TildeAlt, sel, "none", "none", "none")

SpecProviders == Init /\ [][NextProviders]_vars

(***************************************************************************)
(* Auth insight engine: expiry.  Instants and durations are in             *)
(* milliseconds (the resolution of time.UnixMilli); within the instants of *)
(* the model time.Until does not saturate.                                 *)
(***************************************************************************)
Millisecond == 1
Second == 1000 * Millisecond
Minute == 60 * Second

\* time.Until(expiry), read while the clock shows clock
timeUntil(expiry, clock) == expiry - clock

\* a classification that counts the instant of expiry itself as not yet expired
classifyExpiry_StrictlyBefore(expiry, clock) ==
    LET d == timeUntil(expiry, clock) IN
    IF d < 0 THEN "expired"
    ELSE IF d <= 15 * Minute THEN "expiring_soon"
    ELSE "valid"

classifyExpiry(expiry, clock) ==
    LET d == timeUntil(expiry, clock) IN
    IF d <= 0 THEN "expired"
    ELSE IF d <= 15 * Minute THEN "expiring_soon"
    ELSE "valid"

needsRefreshFromStatus(status) ==
    CASE status \in {"expired", "expiring_soon"} -> "yes"
      [] status = "valid" -> "no"
      [] OTHER -> "unknown"

\* a rank under which a valid provider hides an expired one
statusRank_ValidFirst(status) ==
    CASE status = "expired" -> 1
      [] status = "expiring_soon" -> 2
      [] status = "valid" -> 3
      [] OTHER -> 0

statusRank(status) ==
    CASE status = "expired" -> 3
      [] status = "expiring_soon" -> 2
      [] status = "valid" -> 1
      [] OTHER -> 0

\* clock readings and expiry instants around the two boundaries, on and off whole seconds
ClockBase == 1000 * Second
ClockReadings == {ClockBase, ClockBase + 500 * Millisecond, ClockBase + Second}
ExpiryOffsets ==
    {-Minute, -Second, -Millisecond, 0, Millisecond, 500 * Millisecond, Second,
     15 * Minute - Second, 15 * Minute - Millisecond, 15 * Minute, 15 * Minute + Millisecond,
     15 * Minute + 700 * Millisecond, 15 * Minute + Second, 60 * Minute}
ExpiryInstants == {ClockBase + off : off \in ExpiryOffsets}
StatusInputs == {"expired", "expiring_soon", "valid", "unknown", "x", ""}

\* time.Time.Format(time.RFC3339): the instant to the whole second
formatRFC3339(t) == <<t \div Second>>

\* the "expires" field of a provider object: a number of milliseconds, or no number
NoExpires == [kind |-> "absent", ms |-> 0]
NotANumber == [kind |-> "text", ms |-> 0]
Number(ms) == [kind |-> "number", ms |-> ms]
PiProviders == {"openai-codex", "anthropic", "google"}
ExpiresFields ==
    {Number(ClockBase + off) :
        off \in {-Second, 0, 700 * Millisecond, 15 * Minute, 60 * Minute}}
        \cup {NoExpires, NotANumber}

\* numberToFloat: whether the value is a number
numberToFloat(value) == value.kind = "number"

\* the providerStatus records inspectPi collects
providerStatuses(payload, clock) ==
    {[name |-> name, status |-> classifyExpiry(payload[name].ms, clock),
      expiresAt |-> payload[name].ms] :
        name \in {n \in DOMAIN payload : numberToFloat(payload[n])}}

\* statuses[0] after sort.Slice by descending rank: the sort is not stable and the
\* providers come from a range over a map, so any record of the highest rank may be first
worstStatuses(statuses) ==
    {st \in statuses : \A other \in statuses : statusRank(st.status) >= statusRank(other.status)}

\* inspectPi on the expires fields of a payload: the insights it may return
inspectPiExpiry(payload, clock) ==
    LET statuses == providerStatuses(payload, clock) IN
    IF statuses = {}
    THEN {[Status |-> "unknown", ExpiresAt |-> <<>>, NeedsRefresh |-> "unknown",
           Details |-> {<<"no provider expires fields found">>}]}
    ELSE {[Status |-> worst.status, ExpiresAt |-> formatRFC3339(worst.expiresAt),
           NeedsRefresh |-> needsRefreshFromStatus(worst.status),
           Details |-> {<<st.name, st.status, formatRFC3339(st.expiresAt)>> : st \in statuses}] :
              worst \in worstStatuses(statuses)}

(***************************************************************************)
(* Auth insight engine: tokens.  A text is a sequence of words; a token is *)
(* a text whose segments are separated by the word ".".                    *)
(***************************************************************************)
Dot == "."

\* strings.Split(token, ".")
RECURSIVE splitDots(_)
splitDots(token) ==
    IF token = <<>> THEN <<<<>>>>
    ELSE LET rest == splitDots(Tail(token)) IN
         IF Head(token) = Dot THEN <<<<>>>> \o rest
         ELSE <<<<Head(token)>> \o Head(rest)>> \o Tail(rest)

\* strings.Contains(text, sub) for a non-empty sub
Contains(text, sub) ==
    /\ sub # <<>>
    /\ \E i \in 1..(Len(text) - Len(sub) + 1) : SubSeq(text, i, i + Len(sub) - 1) = sub

DigitChars == <<"0", "1", "2", "3", "4", "5", "6", "7", "8", "9">>

RECURSIVE formatDigits(_)
formatDigits(n) ==
    IF n < 10 THEN <<DigitChars[n + 1]>>
    ELSE formatDigits(n \div 10) \o <<DigitChars[(n % 10) + 1]>>

\* the text of time.Time.Format(time.RFC3339): the instant to the whole second
formatRFC3339Text(t) == formatDigits(t \div Second)

\* the claims of a token that the insight engine reads
NoClaims ==
    [exp |-> NoExpires, iat |-> NoExpires, iss |-> <<>>, sub |-> <<>>, aud |-> <<>>,
     email |-> <<>>, plan |-> <<>>, account_id |-> <<>>]

\* decodeJWTSegment and json.Unmarshal of the first segment: [ok, alg]
decodeHeader(segment) ==
    CASE segment = <<"hRS256">> -> [ok |-> TRUE, alg |-> <<"RS256">>]
      [] segment = <<"hNoAlg">> -> [ok |-> TRUE, alg |-> <<>>]
      [] OTHER -> [ok |-> FALSE, alg |-> <<>>]

\* decodeJWTSegment and json.Unmarshal of the second segment: [ok, claims]; exp and iat
\* are in seconds
decodeClaims(segment) ==
    CASE segment = <<"cAccess">> ->
           [ok |-> TRUE,
            claims |-> [NoClaims EXCEPT !.exp = Number((ClockBase + 60 * Minute) \div Second),
                                        !.iat = Number((ClockBase - Minute) \div Second),
                                        !.iss = <<"https://auth.example">>,
                                        !.sub = <<"user-1">>, !.aud = <<"app">>]]
      [] segment = <<"cSoon">> ->
           [ok |-> TRUE,
            claims |-> [NoClaims EXCEPT !.exp = Number((ClockBase + Minute) \div Second)]]
      [] segment = <<"cId">> ->
           [ok |-> TRUE,
            claims |-> [NoClaims EXCEPT !.email = <<"e1@x">>, !.plan = <<"plus">>,
                                        !.account_id = <<"acct_J">>]]
      [] segment = <<"cTextExp">> ->
           [ok |-> TRUE, claims |-> [NoClaims EXCEPT !.exp = NotANumber]]
      [] segment = <<"cEmpty">> -> [ok |-> TRUE, claims |-> NoClaims]
      [] OTHER -> [ok |-> FALSE, claims |-> NoClaims]

\* the keys of the claims, as sort.Strings leaves them
claimKeys(claims) ==
    LET keys == <<"account_id", "aud", "email", "exp", "iat", "iss", "plan", "sub">>
        Present(key) ==
            CASE key = "exp" -> claims.exp.kind # "absent"
              [] key = "iat" -> claims.iat.kind # "absent"
              [] OTHER -> claims[key] # <<>>
    IN SelectSeq(keys, Present)

\* the zero accessTokenInsight
NoTokenInfo ==
    [IsJWT |-> FALSE, HeaderAlg |-> <<>>, ClaimKeys |-> <<>>, Claims |-> NoClaims,
     HasExp |-> FALSE, ExpiresAt |-> 0, HasIat |-> FALSE, IssuedAt |-> 0,
     Issuer |-> <<>>, Subject |-> <<>>, Audience |-> <<>>]

inspectAccessToken(token) ==
    LET parts == splitDots(token)
        header == decodeHeader(parts[1])
        decoded == decodeClaims(parts[2])
        claims == decoded.claims
    IN
    IF Len(parts) # 3 THEN NoTokenInfo
    ELSE IF ~header.ok THEN NoTokenInfo
    ELSE IF ~decoded.ok THEN NoTokenInfo
    ELSE [IsJWT |-> TRUE, HeaderAlg |-> header.alg, ClaimKeys |-> claimKeys(claims),
          Claims |-> claims,
          HasExp |-> numberToFloat(claims.exp), ExpiresAt |-> claims.exp.ms * Second,
          HasIat |-> numberToFloat(claims.iat), IssuedAt |-> claims.iat.ms * Second,
          Issuer |-> claims.iss, Subject |-> claims.sub, Audience |-> claims.aud]

\* strings.Join(words, ",")
RECURSIVE joinComma(_)
joinComma(words) ==
    IF words = <<>> THEN <<>>
    ELSE IF Len(words) = 1 THEN <<words[1]>>
    ELSE <<words[1], ",">> \o joinComma(Tail(words))

describeJWTToken(tokenName, info) ==
    tokenName \o <<" format=jwt">>
      \o (IF info.HeaderAlg # <<>> THEN <<" alg=">> \o info.HeaderAlg ELSE <<>>)
      \o (IF info.HasExp THEN <<" exp=">> \o formatRFC3339Text(info.ExpiresAt) ELSE <<>>)
      \o (IF info.HasIat THEN <<" iat=">> \o formatRFC3339Text(info.IssuedAt) ELSE <<>>)
      \o (IF info.Issuer # <<>> THEN <<" iss=">> \o info.Issuer ELSE <<>>)
      \o (IF info.Subject # <<>> THEN <<" sub=">> \o info.Subject ELSE <<>>)
      \o (IF info.Audience # <<>> THEN <<" aud=">> \o info.Audience ELSE <<>>)
      \o <<" claims=">>
      \o (IF info.ClaimKeys = <<>> THEN <<"-">> ELSE joinComma(info.ClaimKeys))

\* a description that quotes the token
describeOpaqueToken_QuotesToken(tokenName, token) == tokenName \o <<" format=opaque ">> \o token

\* fmt.Sprintf("%s.access format=opaque (not JWT)", key)
describeOpaqueToken(tokenName, token) == tokenName \o <<" format=opaque (not JWT)">>

\* the insight of a payload that gives no status
UnknownInsight(details) ==
    [Status |-> "unknown", NeedsRefresh |-> "unknown", ExpiresAt |-> <<>>,
     LastRefresh |-> <<>>, AccountID |-> <<>>, AccountEmail |-> <<>>, AccountPlan |-> <<>>,
     Details |-> details]

\* inspectCodex on a payload [valid, last_refresh, hasTokens, account_id, id_token,
\* access_token, refresh_token]
inspectCodexPayload(payload, clock) ==
    LET base == [UnknownInsight(<<>>) EXCEPT !.LastRefresh = payload.last_refresh]
        idInfo == inspectAccessToken(payload.id_token)
        plan == IF idInfo.Claims.plan = <<>> THEN <<>>
                ELSE <<normalizePlan(idInfo.Claims.plan[1])>>
        withAccount == [base EXCEPT !.AccountID = payload.account_id]
        withIdentity ==
            IF payload.id_token # <<>> /\ idInfo.IsJWT
            THEN [withAccount EXCEPT
                    !.AccountEmail = idInfo.Claims.email,
                    !.AccountPlan = plan,
                    !.AccountID = IF payload.account_id # <<>> THEN payload.account_id
                                  ELSE idInfo.Claims.account_id]
            ELSE withAccount
        tokenInfo == inspectAccessToken(payload.access_token)
        status == classifyExpiry(tokenInfo.ExpiresAt, clock)
    IN
    IF ~payload.valid THEN UnknownInsight(<<<<"invalid JSON">>>>)
    ELSE IF ~payload.hasTokens THEN [base EXCEPT !.Details = <<<<"tokens object missing">>>>]
    ELSE IF payload.access_token = <<>>
         THEN [withIdentity EXCEPT !.Details = <<<<"access_token missing">>>>]
    ELSE IF ~tokenInfo.HasExp
         THEN [withIdentity EXCEPT !.Details = <<<<"could not parse access_token exp">>>>]
    ELSE [withIdentity EXCEPT !.ExpiresAt = formatRFC3339Text(tokenInfo.ExpiresAt),
                              !.Status = status,
                              !.NeedsRefresh = needsRefreshFromStatus(status)]

\* byte order of the provider names
ProviderRank(name) == IF name = "anthropic" THEN 1 ELSE 2

\* sort.Strings on the token details: each starts with the name of its provider
tokenDetailLess(a, b) == ProviderRank(a[1]) < ProviderRank(b[1])

\* the less function of inspectPi's sort.Slice
statusRankGreater(a, b) == statusRank(a.status) > statusRank(b.status)

\* inspectPi on a payload of provider objects [access, refresh, expires]; order is the
\* order in which the range over the payload visits its keys
inspectPiPayload(payload, order, clock) ==
    LET HasAccess(key) == payload[key].access # <<>>
        HasExpires(key) == numberToFloat(payload[key].expires)
        TokenDetail(key) ==
            LET tokenInfo == inspectAccessToken(payload[key].access) IN
            IF tokenInfo.IsJWT THEN describeJWTToken(<<key, ".access">>, tokenInfo)
            ELSE describeOpaqueToken(<<key, ".access">>, payload[key].access)
        withAccess == SelectSeq(order, HasAccess)
        tokenDetails == SortBy(tokenDetailLess,
                               [i \in 1..Len(withAccess) |-> TokenDetail(withAccess[i])])
        withExpires == SelectSeq(order, HasExpires)
        statuses == SortBy(statusRankGreater,
                           [i \in 1..Len(withExpires) |->
                               [name |-> withExpires[i],
                                status |-> classifyExpiry(payload[withExpires[i]].expires.ms, clock),
                                expiresAt |-> payload[withExpires[i]].expires.ms]])
        worst == statuses[1]
        StatusDetail(st) ==
            <<st.name, "=", st.status, " (">> \o formatRFC3339Text(st.expiresAt) \o <<")">>
    IN
    IF statuses = <<>>
    THEN UnknownInsight(<<<<"no provider expires fields found">>>> \o tokenDetails)
    ELSE [UnknownInsight([i \in 1..Len(statuses) |-> StatusDetail(statuses[i])] \o tokenDetails)
            EXCEPT !.Status = worst.status,
                   !.ExpiresAt = formatRFC3339Text(worst.expiresAt),
                   !.NeedsRefresh = needsRefreshFromStatus(worst.status)]

\* the tokens a payload may hold
TokenSignatures == {<<"sig1">>, <<"sig2">>, <<"sig1", "sig2">>, <<>>}
JWT(header, claims, signature) == <<header, Dot, claims, Dot>> \o signature
AccessTokens ==
    {JWT(h, c, <<"sig1">>) : h \in {"hRS256", "hNoAlg", "hBad"},
                             c \in {"cAccess", "cSoon", "cEmpty", "cBad"}}
      \cup {<<>>, <<"opaque1">>, <<"hRS256", Dot, "cAccess">>}
IDTokens == {<<>>, JWT("hRS256", "cId", <<"sig1">>), <<"opaque2">>}
RefreshTokens == {<<>>, <<"refresh1">>}

CodexTokenPayloads ==
    {[valid |-> v, last_refresh |-> lr, hasTokens |-> ht, account_id |-> acct,
      id_token |-> id, access_token |-> access, refresh_token |-> refresh] :
        v \in {TRUE}, lr \in {<<>>, <<"2026-01-01T00:00:00Z">>}, ht \in BOOLEAN,
        acct \in {<<>>, <<"acct_X">>}, id \in IDTokens, access \in AccessTokens,
        refresh \in RefreshTokens}
      \cup {[valid |-> FALSE, last_refresh |-> <<>>, hasTokens |-> FALSE, account_id |-> <<>>,
             id_token |-> <<>>, access_token |-> <<>>, refresh_token |-> <<>>]}

PiTokenProviders == {"anthropic", "openai-codex"}
PiProviderObjects ==
    {[access |-> access, refresh |-> refresh, expires |-> expires] :
        access \in {<<>>, <<"opaque1">>, JWT("hRS256", "cAccess", <<"sig1">>),
                    JWT("hNoAlg", "cEmpty", <<"sig1">>)},
        refresh \in RefreshTokens,
        expires \in {NoExpires, Number(ClockBase + Minute), Number(ClockBase + 60 * Minute)}}

\* the token with another signature; a token that is not of three segments has none
resign(token, signature) ==
    LET parts == splitDots(token) IN
    IF Len(parts) # 3 THEN token ELSE parts[1] \o <<Dot>> \o parts[2] \o <<Dot>> \o signature

resignCodex(payload, signature) ==
    [payload EXCEPT !.id_token = resign(@, signature), !.access_token = resign(@, signature),
                    !.refresh_token = resign(@, signature)]

resignPi(payload, signature) ==
    [key \in DOMAIN payload |->
        [payload[key] EXCEPT !.access = resign(@, signature), !.refresh = resign(@, signature)]]

CalcFrame == UNCHANGED <<runtime, snapshots, stateFile, now, ops, res, hist, aw, race>>

CalcClassifyExpiry(expiry, clock) ==
    /\ calc.fn = "none"
    /\ calc' = [fn |-> "classifyExpiry", expiry |-> expiry, clock |-> clock,
                status |-> classifyExpiry(expiry, clock),
                needsRefresh |-> needsRefreshFromStatus(classifyExpiry(expiry, clock))]
    /\ CalcFrame

CalcNeedsRefresh(status) ==
    /\ calc.fn = "none"
    /\ calc' = [fn |-> "needsRefreshFromStatus", status |-> status,
                needsRefresh |-> needsRefreshFromStatus(status)]
    /\ CalcFrame

CalcInspectPi(payload, clock) ==
    /\ calc.fn = "none"
    /\ \E insight \in inspectPiExpiry(payload, clock) :
          calc' = [fn |-> "inspectPi", payload |-> payload, clock |-> clock,
                   insight |-> insight]
    /\ CalcFrame

\* inspectCodex on a payload and on the payload with other signature bytes
CalcInspectCodexTokens(payload, signature, clock) ==
    /\ calc.fn = "none"
    /\ calc' = [fn |-> "inspectTokens", tool |-> ToolCodex, resigned |-> signature,
                tokens |-> {payload.id_token, payload.access_token, payload.refresh_token},
                signed |-> Len(splitDots(payload.access_token)) = 3,
                insight |-> inspectCodexPayload(payload, clock),
                twin |-> inspectCodexPayload(resignCodex(payload, signature), clock)]
    /\ CalcFrame

\* inspectPi on a payload and on the payload with other signature bytes
CalcInspectPiTokens(payload, order, signature, clock) ==
    /\ calc.fn = "none"
    /\ calc' = [fn |-> "inspectTokens", tool |-> ToolPi, resigned |-> signature,
                tokens |-> UNION {{payload[key].access, payload[key].refresh} :
                                     key \in DOMAIN payload},
                signed |-> \E key \in DOMAIN payload :
                              Len(splitDots(payload[key].access)) = 3,
                insight |-> inspectPiPayload(payload, order, clock),
                twin |-> inspectPiPayload(resignPi(payload, signature), order, clock)]
    /\ CalcFrame

\* a dispatch that inspects the bytes of every tool but the multi-provider one as the
\* single-token tool's
inspectAuthPayload_DefaultIsCodex(tool, payload, clock) ==
    IF tool = ToolPi THEN inspectPiPayload(payload, <<>>, clock)
    ELSE inspectCodexPayload(payload, clock)

\* inspectAuth on the decoded bytes: the dispatch by tool (for the multi-provider tool,
\* bytes that hold no provider)
inspectAuthPayload(tool, payload, clock) ==
    CASE tool = ToolCodex -> inspectCodexPayload(payload, clock)
      [] tool = ToolPi -> inspectPiPayload(payload, <<>>, clock)
      [] OTHER -> UnknownInsight(<<>>)

\* the tool identifiers and the bytes that inspectAuth is run on
InspectedTools == {ToolCodex, ToolPi, ToolClaude, "bogus", ""}
InspectedAccessTokens ==
    {<<>>, <<"opaque1">>, <<"hRS256", Dot, "cAccess">>, <<"hRS256", Dot, "cAccess", Dot>>,
     JWT("hRS256", "cAccess", <<"sig1">>), JWT("hRS256", "cSoon", <<"sig1">>),
     JWT("hNoAlg", "cSoon", <<>>), JWT("hBad", "cAccess", <<"sig1">>),
     JWT("hRS256", "cBad", <<"sig1">>), JWT("hRS256", "cEmpty", <<"sig1">>),
     JWT("hRS256", "cTextExp", <<"sig1">>), JWT("hRS256", "cAccess", <<"sig1", Dot, "x">>)}
InspectedPayloads ==
    {[valid |-> TRUE, last_refresh |-> <<>>, hasTokens |-> ht, account_id |-> <<>>,
      id_token |-> <<>>, access_token |-> access, refresh_token |-> <<>>] :
        ht \in BOOLEAN, access \in InspectedAccessTokens}
    \cup {[valid |-> FALSE, last_refresh |-> <<>>, hasTokens |-> FALSE, account_id |-> <<>>,
           id_token |-> <<>>, access_token |-> <<>>, refresh_token |-> <<>>]}

CalcInspectAuth(tool, payload, clock) ==
    /\ calc.fn = "none"
    /\ calc' = [fn |-> "inspectAuth", tool |-> tool, payload |-> payload, clock |-> clock,
                insight |-> inspectAuthPayload(tool, payload, clock)]
    /\ CalcFrame

\* the provider objects of the payloads that inspectPi is run on twice
OrderedProviderObjects ==
    {[access |-> access, refresh |-> <<>>, expires |-> expires] :
        access \in {<<>>, <<"opaque1">>},
        expires \in {NoExpires, Number(ClockBase + Minute), Number(ClockBase + 2 * Minute),
                     Number(ClockBase + 60 * Minute)}}

\* inspectPi on a payload, twice: the range over the payload visits its keys in the
\* order order the first time and in the order other the second time
CalcInspectPiOrders(payload, order, other, clock) ==
    /\ calc.fn = "none"
    /\ calc' = [fn |-> "inspectPiOrders", payload |-> payload, order |-> order,
                other |-> other, clock |-> clock,
                insight |-> inspectPiPayload(payload, order, clock),
                twin |-> inspectPiPayload(payload, other, clock)]
    /\ CalcFrame

NextInsight ==
    \/ \E expiry \in ExpiryInstants, clock \in ClockReadings : CalcClassifyExpiry(expiry, clock)
    \/ \E status \in StatusInputs : CalcNeedsRefresh(status)
    \/ \E providers \in SUBSET PiProviders, clock \in ClockReadings :
          \E payload \in [providers -> ExpiresFields] : CalcInspectPi(payload, clock)
    \/ \E payload \in CodexTokenPayloads, signature \in TokenSignatures :
          CalcInspectCodexTokens(payload, signature, ClockBase)
    \/ \E providers \in SUBSET PiTokenProviders, signature \in TokenSignatures :
          \E payload \in [providers -> PiProviderObjects], order \in Orders(providers) :
             CalcInspectPiTokens(payload, order, signature, ClockBase)
    \/ \E tool \in InspectedTools, payload \in InspectedPayloads :
          \E clock \in {ClockBase, ClockBase + 2 * Minute} : CalcInspectAuth(tool, payload, clock)
    \/ \E payload \in [PiTokenProviders -> OrderedProviderObjects] :
          \E order \in Orders(PiTokenProviders), other \in Orders(PiTokenProviders) :
             CalcInspectPiOrders(payload, order, other, ClockBase)

SpecInsight == Init /\ [][NextInsight]_vars

(***************************************************************************)
(* Two invocations on one data root.  A call of save or Delete is a        *)
(* sequence of file-system calls; between any two of them the other        *)
(* invocation may run.  Nothing locks the state document.                  *)
(***************************************************************************)
MaxRaceCalls == 2
RaceLabels == {<<"w">>, <<"w", "w">>}

RaceFrame == UNCHANGED <<runtime, now, ops, res, hist, aw, calc>>

SetProc(p, rec) == [race EXCEPT !.procs[p] = rec]

\* the call returns: with an error, or with success
RaceReturn(p, rec, err) == [rec EXCEPT !.pc = "done", !.ok = (err = ""), !.err = err]

\* save up to and including the write of the snapshot file; Delete starts with loadState
RaceBegin(p, op, label) ==
    LET me == race.procs[p]
        call == [IdleProc EXCEPT !.op = op, !.label = label, !.calls = me.calls + 1]
        verr == validateManagerToolAndLabel(ToolCodex, label)
        src == resolveSourcePath(runtime, ToolCodex, "")
        read == ReadFile(runtime, src.path)
        wrote == atomicWriteFile(snapshots, snapshotPath(ToolCodex, label), read.raw, "none")
    IN
    /\ me.pc \in {"idle", "done"}
    /\ me.calls < MaxRaceCalls
    /\ IF verr # "" THEN
           /\ race' = SetProc(p, RaceReturn(p, call, verr))
           /\ UNCHANGED snapshots
       ELSE IF op = "delete" THEN
           /\ race' = SetProc(p, [call EXCEPT !.pc = "load"])
           /\ UNCHANGED snapshots
       ELSE IF src.err # "" THEN
           /\ race' = SetProc(p, RaceReturn(p, call, src.err))
           /\ UNCHANGED snapshots
       ELSE IF ~validateJSONObject(read.raw) THEN
           /\ race' = SetProc(p, RaceReturn(p, call, "source is not valid JSON object"))
           /\ UNCHANGED snapshots
       ELSE
           /\ race' = SetProc(p, [call EXCEPT !.pc = "load", !.raw = read.raw,
                                              !.sourcePath = src.path])
           /\ snapshots' = wrote.dir
    /\ UNCHANGED stateFile
    /\ RaceFrame

\* m.loadState(), and the entry lookup of Delete
RaceLoad(p) ==
    LET me == race.procs[p]
        state == loadState(stateFile)
        key == stateKey(ToolCodex, me.label)
        loaded == [me EXCEPT !.loaded = state]
    IN
    /\ me.pc = "load"
    /\ IF me.op = "delete" /\ key \notin DOMAIN state.Entries
       THEN race' = SetProc(p, RaceReturn(p, loaded, "no saved snapshot"))
       ELSE race' = SetProc(p, [loaded EXCEPT
                                  !.pc = IF me.op = "delete" THEN "remove" ELSE "commit"])
    /\ UNCHANGED <<snapshots, stateFile>>
    /\ RaceFrame

\* os.Remove(entry.SnapshotPath) of Delete
RaceRemove(p) ==
    LET me == race.procs[p]
        entry == me.loaded.Entries[stateKey(ToolCodex, me.label)]
        removed == removeSnapshot(snapshots, entry.SnapshotPath, FALSE)
    IN
    /\ me.pc = "remove"
    /\ snapshots' = removed.dir
    /\ race' = SetProc(p, [me EXCEPT !.pc = "commit", !.deleted = removed.deleted])
    /\ UNCHANGED stateFile
    /\ RaceFrame

\* the state document a call writes, from the state it loaded
RaceStateToSave(me, clock) ==
    LET state == me.loaded
        key == stateKey(ToolCodex, me.label)
        hadPrev == key \in DOMAIN state.Entries
        prev == IF hadPrev THEN state.Entries[key] ELSE ZeroEntry
        insight == hydrateIdentityFromCache(inspectAuth(ToolCodex, me.raw), state)
        state1 == rememberIdentity(state, insight, clock)
    IN
    IF me.op = "delete" THEN [state EXCEPT !.Entries = Remove(@, key)]
    ELSE [state1 EXCEPT !.Entries =
            Put(@, key,
                [Tool |-> ToolCodex, Label |-> me.label, SourcePath |-> me.sourcePath,
                 SnapshotPath |-> snapshotPath(ToolCodex, me.label),
                 SHA256 |-> sha256Hex(me.raw), SavedAt |-> nowISO(clock),
                 LastUsedAt |-> prev.LastUsedAt, LastUsedSHA |-> prev.LastUsedSHA])]

\* a commit that reads the state document again under a lock and applies its change to
\* what it finds
RaceCommit_UnderLock(p) ==
    LET me == race.procs[p]
        fresh == [me EXCEPT !.loaded = loadState(stateFile)]
        saved == saveState(stateFile, RaceStateToSave(fresh, now), "none")
    IN
    /\ me.pc = "commit"
    /\ stateFile' = saved.dir
    /\ race' = [procs |-> [race.procs EXCEPT ![p] = RaceReturn(p, me, saved.err)],
                last |-> p]
    /\ UNCHANGED snapshots
    /\ RaceFrame

\* m.saveState(state): the rename puts this call's document in place
RaceCommit(p) ==
    LET me == race.procs[p]
        saved == saveState(stateFile, RaceStateToSave(me, now), "none")
    IN
    /\ me.pc = "commit"
    /\ stateFile' = saved.dir
    /\ race' = [procs |-> [race.procs EXCEPT ![p] = RaceReturn(p, me, saved.err)],
                last |-> p]
    /\ UNCHANGED snapshots
    /\ RaceFrame

NextRace ==
    \/ \E p \in Procs, label \in RaceLabels : RaceBegin(p, "save", label)
    \/ \E p \in Procs, label \in RaceLabels : RaceBegin(p, "delete", label)
    \/ \E p \in Procs : RaceLoad(p)
    \/ \E p \in Procs : RaceRemove(p)
    \/ \E p \in Procs : RaceCommit(p)

SpecRace == Init /\ [][NextRace]_vars

(***************************************************************************)
(* Properties of use, save and delete (specification Spec).                *)
(***************************************************************************)
TargetNow == ReadFile(runtime, res.target).raw
SnapshotNow == ReadFile(snapshots, snapshotPath(res.tool, res.label)).raw
EntriesNow == loadState(stateFile).Entries
KeyOfCall == stateKey(res.tool, res.label)
UseFailedAfterWrite == res.op = "use" /\ res.wroteTarget /\ ~res.ok

\* C1 as stated: whenever use has written the target and the state save that follows
\* fails, the target holds its bytes of before the call, or is absent if it was absent.
C1_TargetRestoredAfterStateFailure ==
    UseFailedAfterWrite => TargetNow = res.targetBefore

\* C1: when use has written the target, the state save that follows fails and the
\* rollback does not fail itself, the target holds its bytes of before the call, or is
\* absent if it was absent; a rollback that fails is reported and leaves the new bytes.
C1_TargetRestoredUnlessRollbackFails ==
    UseFailedAfterWrite =>
        /\ res.err = "saving state after writing target"
        /\ res.rollback \in {"done", "failed"}
        /\ res.rollback = "done" => TargetNow = res.targetBefore
        /\ EntriesNow[KeyOfCall] = res.entryBefore

C1_RolledBackOverOldTarget ==
    /\ UseFailedAfterWrite
    /\ res.rollback = "done"
    /\ res.targetBefore # NoFile
    /\ res.targetBefore # res.raw
    /\ TargetNow = res.targetBefore

UsedDefaultRuntime ==
    /\ res.op = "use"
    /\ res.ok
    /\ res.provider = ""
    /\ res.target = DefaultRuntime(res.tool)

\* C2: after a successful use of a saved snapshot with no target override and no
\* provider selector, the default runtime file of a single-token tool is byte-identical
\* to the snapshot file, and that of the multi-provider tool holds every provider key of
\* the snapshot with the snapshot's value.
C2_UseWritesSnapshotToDefaultRuntime ==
    UsedDefaultRuntime =>
        /\ SnapshotNow # NoFile
        /\ IF res.tool = ToolPi
           THEN /\ validateJSONObject(TargetNow)
                /\ \A k \in KeysOf(SnapshotNow) :
                      Unmarshal(TargetNow)[k] = Unmarshal(SnapshotNow)[k]
           ELSE TargetNow = SnapshotNow

C2_MergedOverDifferentRuntime ==
    /\ UsedDefaultRuntime
    /\ res.tool = ToolPi
    /\ res.targetBefore # NoFile
    /\ \E k \in KeysOf(SnapshotNow) :
          Unmarshal(res.targetBefore)[k] \notin {None, Unmarshal(SnapshotNow)[k]}

\* C3 as stated: the first successful use after the entry is created returns "first
\* use"; a successful use with no successful save since the previous successful use
\* returns "unchanged since last use"; a successful use after one intervening save of
\* other bytes returns "changed since last use (likely refreshed)"; and the signal is
\* "first use" iff the entry has no last-used digest, else "unchanged since last use"
\* iff the digest of the snapshot file equals the last-used digest.
C3_ChangeSignalFollowsSnapshot ==
    (res.op = "use" /\ res.ok) =>
        /\ res.useBefore = "new" => res.ChangeSinceLastUse = "first use"
        /\ res.useBefore = "used" => res.ChangeSinceLastUse = "unchanged since last use"
        /\ res.useBefore = "resaved" =>
              res.ChangeSinceLastUse = "changed since last use (likely refreshed)"
        /\ res.ChangeSinceLastUse = "first use" <=> res.entryBefore.LastUsedSHA = NoSHA
        /\ res.entryBefore.LastUsedSHA # NoSHA =>
              (res.ChangeSinceLastUse = "unchanged since last use"
                 <=> sha256Hex(res.snapBefore) = res.entryBefore.LastUsedSHA)

\* C4: a successful save returns changedSinceLastSave = false exactly when the state
\* document already held the entry of (tool, label) and its digest equals the digest of
\* the bytes saved; afterwards the entry records that digest.
C4_ChangedIffNoEntryOrOtherDigest ==
    (res.op = "save" /\ res.ok) =>
        /\ res.ChangedSinceLastSave = FALSE
             <=> (res.hadEntry /\ res.entryBefore.SHA256 = sha256Hex(res.raw))
        /\ KeyOfCall \in DOMAIN EntriesNow
        /\ EntriesNow[KeyOfCall].SHA256 = sha256Hex(res.raw)
        /\ SnapshotNow = res.raw

C4_SameBytesSavedAgain ==
    /\ res.op = "save"
    /\ res.ok
    /\ res.hadEntry
    /\ res.snapBefore = res.raw
    /\ ~res.ChangedSinceLastSave

\* C5: a successful use of the multi-provider tool leaves every top-level key that the
\* applied (provider-filtered) snapshot does not contain as it was in the target: present
\* with an equal value if the target had it, absent if not.
C5_UseKeepsOtherProviders ==
    (res.op = "use" /\ res.ok /\ res.tool = ToolPi) =>
        /\ validateJSONObject(TargetNow)
        /\ \A k \in JsonKeys \ KeysOf(res.raw) :
              Unmarshal(TargetNow)[k] = Unmarshal(res.targetBefore)[k]

C5_KeptAProviderTheSnapshotOmits ==
    /\ res.op = "use"
    /\ res.ok
    /\ res.tool = ToolPi
    /\ KeysOf(res.targetBefore) \ KeysOf(res.raw) # {}
    /\ \E k \in KeysOf(res.raw) : Unmarshal(TargetNow)[k] # Unmarshal(res.targetBefore)[k]

\* C7: a successful delete reports deleted exactly when the snapshot file was present,
\* and leaves neither the snapshot file nor the state entry; a delete of an entry whose
\* snapshot file is absent fails only if the state document cannot be saved.
C7_DeleteToleratesMissingSnapshot ==
    res.op = "delete" =>
        /\ res.ok =>
              /\ res.hadEntry
              /\ res.SnapshotDeleted = (res.snapBefore # NoFile)
              /\ SnapshotNow = NoFile
              /\ KeyOfCall \notin DOMAIN EntriesNow
        /\ (~res.ok /\ res.hadEntry /\ res.snapBefore = NoFile) => res.err = "saving state"

C7_DeletedEntryWithoutSnapshot ==
    /\ res.op = "delete"
    /\ res.ok
    /\ res.hadEntry
    /\ res.snapBefore = NoFile
    /\ ~res.SnapshotDeleted

ProviderErrors == {"pi provider not found"}
InvalidToolOrLabel == ~ParseTool(res.tool) \/ ~labelPatternMatch(TrimSpace(res.label))

C6_NoLabelOutsidePattern ==
    /\ (res.op \in {"save", "use", "delete"} /\ ~labelPatternMatch(res.label)) =>
          res.err \in ValidationErrors
    /\ \A key \in DOMAIN EntriesNow : labelPatternMatch(key[2])
    /\ \A path \in DOMAIN snapshots : labelPatternMatch(path[2])

(***************************************************************************)
(* Identity fallback (specification SpecIdentity).                         *)
(***************************************************************************)
PayloadIdentity == inspectAuth(res.tool, res.raw)
BareAccountCall ==
    /\ res.op \in {"save", "use"}
    /\ res.ok
    /\ PayloadIdentity.AccountID # ""
    /\ PayloadIdentity.AccountEmail = ""
    /\ PayloadIdentity.AccountPlan = ""

\* C9 as stated: after a successful save of a payload carrying account id X, email E and
\* plan P, a later successful save or use of a payload carrying X and neither email nor
\* plan returns an insight with email E and plan P.
C9_FallbackToAnyEarlierSave ==
    BareAccountCall =>
        \A t \in hist.ever :
            t[1] = PayloadIdentity.AccountID =>
                res.Insight.AccountEmail = t[2] /\ res.Insight.AccountPlan = t[3]

\* C9: after a successful save of a payload carrying account id X, email E and plan P,
\* and no successful save or use since of a payload carrying X with another email or
\* plan, a successful save or use of a payload carrying X and neither email nor plan
\* returns an insight with email E and plan P.
C9_FallbackToLatestIdentity ==
    (BareAccountCall /\ PayloadIdentity.AccountID \in DOMAIN hist.seed) =>
        LET seed == hist.seed[PayloadIdentity.AccountID] IN
        seed.clean =>
            /\ res.Insight.AccountID = PayloadIdentity.AccountID
            /\ res.Insight.AccountEmail = seed.Email
            /\ res.Insight.AccountPlan = seed.Plan

C9_BarePayloadGotIdentity ==
    /\ BareAccountCall
    /\ PayloadIdentity.AccountID \in DOMAIN hist.seed
    /\ hist.seed[PayloadIdentity.AccountID].clean
    /\ res.Insight.AccountEmail # ""
    /\ res.Insight.AccountPlan # ""

(***************************************************************************)
(* atomicWriteFile (specification SpecAW).                                 *)
(***************************************************************************)
DestinationWhole ==
    \/ aw.dest = aw.destBefore
    \/ aw.dest.exists /\ aw.dest.bytes = aw.raw

RaceEntries == loadState(stateFile).Entries
RaceKey(p) == stateKey(ToolCodex, race.procs[p].label)

\* C11: the state document is the one the last call to rename computed from the state
\* it loaded, whatever other calls wrote in between: the entries are those that call
\* loaded, with its own entry added (save) or removed (Delete).  So two saves of
\* different labels can both return success and leave only one entry.
C11_LastRenameWins ==
    race.last # "none" =>
        LET me == race.procs[race.last]
            own == RaceKey(race.last)
        IN
        (me.pc = "done" /\ me.ok) =>
            /\ DOMAIN RaceEntries =
                  IF me.op = "save" THEN DOMAIN me.loaded.Entries \cup {own}
                  ELSE DOMAIN me.loaded.Entries \ {own}
            /\ \A k \in DOMAIN RaceEntries \ {own} : RaceEntries[k] = me.loaded.Entries[k]

C11_BothSavedOneEntryLost ==
    /\ \A p \in Procs :
          /\ race.procs[p].pc = "done"
          /\ race.procs[p].ok
          /\ race.procs[p].op = "save"
          /\ race.procs[p].calls = 1
    /\ RaceKey("p1") # RaceKey("p2")
    /\ Cardinality(DOMAIN RaceEntries) = 1

(***************************************************************************)
(* Active (specification SpecActive).                                      *)
(***************************************************************************)
EntriesOfTool(tool) == {k \in DOMAIN EntriesNow : EntriesNow[k].Tool = tool}

\* a saved entry matches the runtime file of its tool: by digest for the single-token
\* tool, by every provider of its snapshot file for the multi-provider tool
EntryMatchesRuntime(tool, entry) ==
    LET rtf == ReadFile(runtime, DefaultRuntime(tool)).raw
        snap == ReadFile(snapshots, entry.SnapshotPath).raw
    IN
    IF tool = ToolPi
    THEN /\ validateJSONObject(snap)
         /\ KeysOf(snap) # {}
         /\ \A k \in KeysOf(snap) : k \in KeysOf(rtf) /\ Canon(snap.m[k]) = Canon(rtf.m[k])
    ELSE entry.SHA256 = sha256Hex(rtf)

MatchingLabels(tool) ==
    {EntriesNow[k].Label : k \in {e \in EntriesOfTool(tool) :
                                     EntryMatchesRuntime(tool, EntriesNow[e])}}

Ascending(labels) ==
    CHOOSE seq \in Orders(labels) : \A i \in 1..Len(seq), j \in 1..Len(seq) :
                                       i < j => StringLess(seq[i], seq[j])

ActiveInScope(tool) ==
    /\ EntriesOfTool(tool) # {}
    /\ validateJSONObject(ReadFile(runtime, DefaultRuntime(tool)).raw)

\* C12: for each tool in scope whose runtime file is a valid JSON object and which has a
\* saved entry, Active reports "no matching saved profile" when no saved label matches,
\* "match" with the label when one matches, and "ambiguous" with all matching labels in
\* ascending order, joined by commas, and a detail when two or more match.
C12_ActiveCountsMatches ==
    (res.op = "active" /\ res.ok) =>
        /\ Len(res.items) = IF res.tool = "" THEN 2 ELSE 1
        /\ \A i \in 1..Len(res.items) :
              LET item == res.items[i]
                  matching == MatchingLabels(item.Tool)
              IN
              /\ item.Tool = IF res.tool = "" THEN <<ToolCodex, ToolPi>>[i] ELSE res.tool
              /\ ActiveInScope(item.Tool) =>
                    /\ matching = {} =>
                          item.Status = "no matching saved profile" /\ item.ActiveLabel = <<>>
                    /\ Cardinality(matching) = 1 =>
                          item.Status = "match" /\ item.ActiveLabel \in matching
                    /\ Cardinality(matching) >= 2 =>
                          /\ item.Status = "ambiguous"
                          /\ item.ActiveLabel = stringsJoin(Ascending(matching))
                          /\ item.Details # <<>>

C12_AmbiguousTwoLabels ==
    /\ res.op = "active"
    /\ res.ok
    /\ \E i \in 1..Len(res.items) :
          /\ res.items[i].Status = "ambiguous"
          /\ res.items[i].Tool = ToolPi
          /\ res.items[i].ActiveLabel = <<".", ",", "w">>

(***************************************************************************)
(* Insight engine (specification SpecInsight).                             *)
(***************************************************************************)
\* C13: the classification depends on the expiry instant and the clock reading only:
\* expired when expiry <= now, expiring_soon when now < expiry <= now + 15 minutes, valid
\* when expiry > now + 15 minutes; needs_refresh is yes for expired and expiring_soon, no
\* for valid and unknown for any other status.
C13_ExpiryClassification ==
    /\ calc.fn = "classifyExpiry" =>
          /\ calc.status = "expired" <=> calc.expiry <= calc.clock
          /\ calc.status = "expiring_soon" <=>
                (calc.clock < calc.expiry /\ calc.expiry <= calc.clock + 15 * 60 * 1000)
          /\ calc.status = "valid" <=> calc.expiry > calc.clock + 15 * 60 * 1000
          /\ calc.needsRefresh = IF calc.status = "valid" THEN "no" ELSE "yes"
    /\ calc.fn = "needsRefreshFromStatus" =>
          /\ calc.status \in {"expired", "expiring_soon"} => calc.needsRefresh = "yes"
          /\ calc.status = "valid" => calc.needsRefresh = "no"
          /\ calc.status \notin {"expired", "expiring_soon", "valid"} =>
                calc.needsRefresh = "unknown"

C13_ExpiryExactlyNow ==
    /\ calc.fn = "classifyExpiry"
    /\ calc.expiry = calc.clock
    /\ calc.status = "expired"

StatusOrder == <<"unknown", "valid", "expiring_soon", "expired">>
StatusAt(expiry, clock) ==
    IF expiry <= clock THEN "expired"
    ELSE IF expiry <= clock + 15 * 60 * 1000 THEN "expiring_soon"
    ELSE "valid"
WithExpires == {n \in DOMAIN calc.payload : calc.payload[n].kind = "number"}
PositionOf(status) == CHOOSE i \in 1..Len(StatusOrder) : StatusOrder[i] = status

\* C14: for a multi-provider payload with at least one numeric expires, the aggregate
\* status is the one of highest rank (expired > expiring_soon > valid > unknown) among
\* the providers with a numeric expires, the aggregate expiry is the expiry of a provider
\* with that status, and needs_refresh follows from the aggregate status; with no numeric
\* expires the status is unknown.
C14_AggregateIsWorstProvider ==
    calc.fn = "inspectPi" =>
        IF WithExpires = {}
        THEN calc.insight.Status = "unknown" /\ calc.insight.NeedsRefresh = "unknown"
        ELSE /\ \A n \in WithExpires :
                   PositionOf(calc.insight.Status)
                      >= PositionOf(StatusAt(calc.payload[n].ms, calc.clock))
             /\ \E n \in WithExpires :
                   /\ StatusAt(calc.payload[n].ms, calc.clock) = calc.insight.Status
                   /\ calc.insight.ExpiresAt = <<calc.payload[n].ms \div 1000>>
             /\ calc.insight.NeedsRefresh =
                   IF calc.insight.Status = "valid" THEN "no" ELSE "yes"

C14_ExpiredAmongValid ==
    /\ calc.fn = "inspectPi"
    /\ calc.insight.Status = "expired"
    /\ \E n \in WithExpires : StatusAt(calc.payload[n].ms, calc.clock) = "valid"
    /\ \E n \in DOMAIN calc.payload : calc.payload[n] = NoExpires

(***************************************************************************)
(* C15: after successful save and Delete calls on a data root that was     *)
(* empty, List without a filter returns one item for every (tool, label)   *)
(* saved and not deleted since, and no other item.                         *)
(***************************************************************************)
\* the (tool, label) pairs saved with success and not deleted with success since
SavedNotDeleted == DOMAIN hist.use

ListedPairs == {<<res.items[i].Tool, res.items[i].Label>> : i \in 1..Len(res.items)}

C15_ListIsSavedMinusDeleted ==
    (res.op = "list" /\ res.ok /\ res.tool = "") =>
        /\ ListedPairs = SavedNotDeleted
        /\ Len(res.items) = Cardinality(SavedNotDeleted)

\* a profile was saved, it was deleted, and List returned no item
C15_ListedNothingAfterDelete ==
    /\ res.op = "list" /\ res.ok /\ res.tool = ""
    /\ res.items = <<>>
    /\ hist.ever # {}

(***************************************************************************)
(* C16: use and Delete return an error whenever the state document holds   *)
(* no entry for the key of (tool, label); the error of use names the save  *)
(* command to run for that tool and label.                                 *)
(***************************************************************************)
SaveCommandOfCall == <<"ags", "save", res.tool, "--label", res.label>>

C16_NoEntryIsAnError ==
    (res.op \in {"use", "delete"} /\ ~res.hadEntry) =>
        /\ ~res.ok
        /\ res.err # ""
        /\ EntriesNow = loadState(stateFile).Entries
        /\ KeyOfCall \notin DOMAIN EntriesNow
        /\ (res.op = "use" /\ ~InvalidToolOrLabel) =>
              /\ res.err = "no saved profile"
              /\ res.command = SaveCommandOfCall
        /\ (res.op = "delete" /\ ~InvalidToolOrLabel) => res.err = "no saved snapshot"

\* a use of a valid tool and label that were never saved, while another profile is saved
C16_UseOfUnsavedLabel ==
    /\ res.op = "use"
    /\ ~InvalidToolOrLabel
    /\ ~res.hadEntry
    /\ DOMAIN EntriesNow # {}
    /\ res.command = SaveCommandOfCall

(***************************************************************************)
(* C17: no field of the insight of a payload (status, expiry, last         *)
(* refresh, identity fields, detail strings) contains the access token,    *)
(* the identity token or the refresh token of the payload, and a payload   *)
(* that differs in the signature bytes of its tokens only gets the same    *)
(* insight.                                                                *)
(***************************************************************************)
InsightTexts(insight) ==
    {<<insight.Status>>, <<insight.NeedsRefresh>>, insight.ExpiresAt, insight.LastRefresh,
     insight.AccountID, insight.AccountEmail, insight.AccountPlan}
      \cup {insight.Details[i] : i \in 1..Len(insight.Details)}

C17_InsightsCarryNoToken ==
    calc.fn = "inspectTokens" =>
        /\ \A text \in InsightTexts(calc.insight), token \in calc.tokens :
              ~Contains(text, token)
        /\ calc.twin = calc.insight

\* a payload with a signed access token and an opaque one, inspected with a detail for
\* each, and again with another signature
C17_SignedAndOpaqueTokensDescribed ==
    /\ calc.fn = "inspectTokens"
    /\ calc.tool = ToolPi
    /\ calc.signed
    /\ calc.resigned # <<"sig1">>
    /\ <<"opaque1">> \in calc.tokens
    /\ \E i \in 1..Len(calc.insight.Details) : Contains(calc.insight.Details[i], <<" format=jwt">>)
    /\ \E i \in 1..Len(calc.insight.Details) : Contains(calc.insight.Details[i], <<" sub=">>)
    /\ calc.insight.ExpiresAt # <<>>

(***************************************************************************)
(* C18: the change signal of a use is computed from the digest of the      *)
(* whole stored snapshot, before the provider filter, so that the provider *)
(* selector never affects it: a successful use records the digest of the   *)
(* snapshot file as the last-used digest and returns "unchanged since last *)
(* use" when the entry's last-used digest is the digest of the snapshot    *)
(* file, whatever the selector of this use or of the one before.           *)
(***************************************************************************)
C18_SignalDigestsWholeSnapshot ==
    (res.op = "use" /\ res.ok) =>
        /\ EntriesNow[KeyOfCall].LastUsedSHA = sha256Hex(res.snapBefore)
        /\ res.entryBefore.LastUsedSHA = sha256Hex(res.snapBefore) =>
              res.ChangeSinceLastUse = "unchanged since last use"

\* a use without a selector, with no successful save since the last successful use,
\* that reports a change
C18_UnselectedUseReportsChange ==
    /\ res.op = "use" /\ res.ok
    /\ res.provider = ""
    /\ res.useBefore = "used"
    /\ res.entryBefore.SHA256 = sha256Hex(res.snapBefore)
    /\ res.ChangeSinceLastUse = "changed since last use (likely refreshed)"

(***************************************************************************)
(* C19: a successful save over an existing entry replaces the entry's      *)
(* source path, snapshot path, digest and save timestamp, and leaves its   *)
(* last-used timestamp and last-used digest as they were before the save.  *)
(***************************************************************************)
C19_SaveKeepsLastUse ==
    (res.op = "save" /\ res.ok /\ res.hadEntry) =>
        LET entry == EntriesNow[KeyOfCall] IN
        /\ entry.SourcePath = res.source
        /\ entry.SnapshotPath = snapshotPath(res.tool, res.label)
        /\ entry.SHA256 = sha256Hex(res.raw)
        /\ entry.SavedAt = nowISO(res.at)
        /\ entry.LastUsedAt = res.entryBefore.LastUsedAt
        /\ entry.LastUsedSHA = res.entryBefore.LastUsedSHA

\* a save of other bytes from another path, later than the entry's last use
C19_SavedOverUsedEntry ==
    /\ res.op = "save" /\ res.ok /\ res.hadEntry
    /\ res.entryBefore.LastUsedAt # NoTime
    /\ res.entryBefore.LastUsedAt # nowISO(res.at)
    /\ res.entryBefore.LastUsedSHA # sha256Hex(res.raw)
    /\ res.entryBefore.SourcePath # res.source
    /\ res.entryBefore.SavedAt # nowISO(res.at)

(***************************************************************************)
(* C20: saving the same source bytes under the same (tool, label) twice in *)
(* a row changes timestamps only: the second save leaves the snapshot      *)
(* files, the set of entries and every field of every entry but the saved  *)
(* entry's save timestamp as the first save left them, and the identity    *)
(* cache but for its update timestamps.                                    *)
(***************************************************************************)
StateNow == loadState(stateFile)

\* the step is the second of two successful saves in a row of the same bytes from the
\* same source under the same (tool, label)
SameSaveAgain ==
    /\ res.op = "save" /\ res.ok
    /\ ops' = ops + 1
    /\ res'.op = "save" /\ res'.ok
    /\ res'.tool = res.tool /\ res'.label = res.label /\ res'.provider = res.provider
    /\ res'.source = res.source
    /\ ReadFile(runtime', res'.source) = ReadFile(runtime, res.source)

SameButTimestamps ==
    LET before == StateNow
        after == loadState(stateFile')
        key == stateKey(res.tool, res.label)
    IN
    /\ snapshots' = snapshots
    /\ after.Version = before.Version
    /\ DOMAIN after.Entries = DOMAIN before.Entries
    /\ \A k \in DOMAIN before.Entries \ {key} : after.Entries[k] = before.Entries[k]
    /\ after.Entries[key] = [before.Entries[key] EXCEPT !.SavedAt = after.Entries[key].SavedAt]
    /\ DOMAIN after.IdentityCache = DOMAIN before.IdentityCache
    /\ \A a \in DOMAIN before.IdentityCache :
          after.IdentityCache[a] =
             [before.IdentityCache[a] EXCEPT !.UpdatedAt = after.IdentityCache[a].UpdatedAt]

C20_SecondSaveChangesTimestampsOnly == [][SameSaveAgain => SameButTimestamps]_vars

\* the same bytes were saved again later, over an entry that was saved but not used at
\* that time, while another profile is saved too
C20_SavedAgainLater ==
    /\ res.op = "save" /\ res.ok /\ res.hadEntry
    /\ res.snapBefore = res.raw
    /\ res.entryBefore.SHA256 = sha256Hex(res.raw)
    /\ res.entryBefore.SourcePath = res.source
    /\ res.entryBefore.SavedAt # nowISO(res.at)
    /\ res.entryBefore.LastUsedAt = NoTime
    /\ Cardinality(DOMAIN EntriesNow) = 2
    /\ StateNow.IdentityCache # <<>>

(***************************************************************************)
(* C21: in every state loadState returns and in every state save, use and  *)
(* Delete persist, the entries map and the identity-cache map are not nil, *)
(* the version is at least 1 and the key of every entry is the key of the  *)
(* entry's own tool and label.                                             *)
(***************************************************************************)
WellFormedState(state) ==
    /\ state.nilMaps = {}
    /\ state.Version >= 1
    /\ \A key \in DOMAIN state.Entries :
          key = stateKey(state.Entries[key].Tool, state.Entries[key].Label)

C21_StatesAreWellFormed ==
    res.op # "none" =>
        /\ WellFormedState(loadState(stateFile))
        /\ StatePath \in DOMAIN stateFile => WellFormedState(stateFile[StatePath])

\* the same but for the nil maps: versions and keys of the states loaded and persisted
C21_VersionsAndKeys ==
    res.op # "none" =>
        /\ WellFormedState([loadState(stateFile) EXCEPT !.nilMaps = {}])
        /\ StatePath \in DOMAIN stateFile =>
              WellFormedState([stateFile[StatePath] EXCEPT !.nilMaps = {}])

\* the accesses that modify a file
Modifications ==
    {"write snapshot", "write target", "restore target", "remove snapshot", "write state"}

\* the positions of the modifications in the steps of the last call
ModifyingSteps == {i \in 1..Len(res.steps) : res.steps[i] \in Modifications}

\* the state document was read before the call modified any file
StateReadFirst ==
    \A i \in ModifyingSteps : \E j \in 1..(i - 1) : res.steps[j] = "read state"

\* a mutating call that succeeded rewrote the state document as its last modification
StateWrittenLast ==
    (res.op \in {"save", "use", "delete"} /\ res.ok)
        => /\ ModifyingSteps # {}
           /\ \A i \in ModifyingSteps : i = Len(res.steps) <=> res.steps[i] = "write state"

StateReaders == {"save", "use", "delete", "list", "active"}

\* a save whose source file is not a JSON object fails
SourceValidated ==
    (res.op = "save" /\ res.source # "" /\ ~validateJSONObject(res.sourceBefore)) => ~res.ok

\* a use whose snapshot file is not a JSON object fails
SnapshotValidated ==
    (res.op = "use" /\ res.hadEntry /\ ~validateJSONObject(res.snapBefore)) => ~res.ok

\* a use over an existing target file that is not a JSON object fails
TargetValidated(tools) ==
    (res.op = "use" /\ res.tool \in tools /\ res.target # ""
       /\ res.targetBefore # NoFile /\ ~validateJSONObject(res.targetBefore)) => ~res.ok

\* a call that reads a state document whose top-level value is one of jsons fails
StateValidated(jsons) ==
    (res.op \in StateReaders /\ res.stateBefore \in jsons) => ~res.ok

\* C23: every external JSON input is rejected unless its top-level value is an object:
\* the source read by save, the snapshot read by use, the existing target file read by
\* use (for every tool), and the state document read by any operation (a state file
\* holding null, an array or a scalar makes the operation fail)
C23_NonObjectsAreRejected ==
    /\ SourceValidated
    /\ SnapshotValidated
    /\ TargetValidated(ToolInputs)
    /\ StateValidated(ForeignJSON)
\* the identity cache that a call finds, and the one it leaves
CacheBefore == loadState(stateFile).IdentityCache
CacheAfter == loadState(stateFile').IdentityCache

\* the step is a successful save or use of a payload that carries an account id for
\* which the cache holds a plan, and that carries no plan itself
PlanlessCallOnCachedPlan ==
    LET payload == inspectAuth(res'.tool, res'.raw) IN
    /\ res'.op \in {"save", "use"} /\ res'.ok /\ ops' = ops + 1
    /\ payload.AccountID # "" /\ payload.AccountPlan = ""
    /\ payload.AccountID \in DOMAIN CacheBefore
    /\ CacheBefore[payload.AccountID].Plan # ""

\* the call reports the cached plan and leaves it in the cache
CachedPlanReportedAndKept ==
    LET X == inspectAuth(res'.tool, res'.raw).AccountID IN
    /\ res'.Insight.AccountPlan = CacheBefore[X].Plan
    /\ X \in DOMAIN CacheAfter
    /\ CacheAfter[X].Plan = CacheBefore[X].Plan

\* C24: whenever the identity cache holds a plan for account id X, a save or use of a
\* payload that carries X and lacks a plan returns an insight reporting the cached plan,
\* whether or not the payload carries an email, and the cache entry for X still holds
\* that plan after the call
C24_CachedPlanSurvivesPlanlessPayload ==
    [][PlanlessCallOnCachedPlan => CachedPlanReportedAndKept]_vars

\* the same, for the payloads that carry no email either
C24_CachedPlanSurvivesBarePayload ==
    [][(PlanlessCallOnCachedPlan /\ inspectAuth(res'.tool, res'.raw).AccountEmail = "")
          => CachedPlanReportedAndKept]_vars
\* the identity cache of the state document as the last call left it (a payload that
\* lacks an email adds no account to it)
CacheNow == loadState(stateFile).IdentityCache

\* insight is the backfilled insight of payload: when the payload's account id is known
\* to the cache and the payload lacks an email, the insight reports the cached email
Backfilled(payload, insight) ==
    (payload.AccountID \in DOMAIN CacheNow /\ payload.AccountEmail = "")
        => insight.AccountEmail = CacheNow[payload.AccountID].Email

\* the insight that save and use return is backfilled
ReturnedInsightBackfilled ==
    (res.op \in {"save", "use"} /\ res.ok)
        => Backfilled(inspectAuth(res.tool, res.raw), res.Insight)

\* the insight of every item that list returns is backfilled
ListedInsightsBackfilled ==
    (res.op = "list" /\ res.ok) =>
        \A i \in 1..Len(res.items) :
            LET item == res.items[i]
                read == ReadFile(snapshots, item.Snapshot)
            IN read.exists
                 => Backfilled(inspectAuth(item.Tool, read.raw), item.AuthInsight.Identity)

\* C25: every insight returned to the caller, including each item's insight returned by
\* list, is backfilled from the identity cache: if the snapshot's payload carries an
\* account id known to the cache and lacks an email, the returned insight reports the
\* cached email
C25_EveryInsightIsBackfilled == ReturnedInsightBackfilled /\ ListedInsightsBackfilled
\* every provider key of the entry's snapshot exists in the runtime file with an equal
\* value (a readable snapshot that is a JSON object)
ProvidersAllInRuntime(entry) ==
    LET rtf == ReadFile(runtime, DefaultRuntime(ToolPi)).raw
        snap == ReadFile(snapshots, entry.SnapshotPath)
    IN
    /\ snap.exists /\ validateJSONObject(snap.raw)
    /\ \A k \in KeysOf(snap.raw) :
          k \in KeysOf(rtf) /\ Canon(snap.raw.m[k]) = Canon(rtf.m[k])

\* the entry's snapshot has at least one provider key
HasProvider(entry) == KeysOf(ReadFile(snapshots, entry.SnapshotPath).raw) # {}

\* the item of the multi-provider tool reports exactly the labels of matching
PiItemReports(item, matching) ==
    /\ matching = {} => item.Status = "no matching saved profile"
    /\ Cardinality(matching) = 1 => item.Status = "match" /\ item.ActiveLabel \in matching
    /\ Cardinality(matching) >= 2 =>
          item.Status = "ambiguous" /\ item.ActiveLabel = stringsJoin(Ascending(matching))

\* the items of the multi-provider tool that Active returned after comparing snapshots
PiItemsCompared ==
    IF res.op = "active" /\ res.ok /\ ActiveInScope(ToolPi)
    THEN {i \in 1..Len(res.items) : res.items[i].Tool = ToolPi}
    ELSE {}

\* C26 (as stated): for the multi-provider tool, active counts a saved label as matching
\* exactly when its snapshot is readable and every provider key of the snapshot exists in
\* the runtime file with an equal value, for every snapshot object, one with no provider
\* keys included
C26_SubsetMatchOfEverySnapshot ==
    \A i \in PiItemsCompared :
        PiItemReports(res.items[i],
                      {EntriesNow[k].Label : k \in {e \in EntriesOfTool(ToolPi) :
                                                      ProvidersAllInRuntime(EntriesNow[e])}})

\* C26 (amended): ... exactly when its snapshot is readable, has at least one provider
\* key, and every provider key of the snapshot exists in the runtime file with an equal
\* value; a snapshot object with no provider keys never matches
C26_SubsetMatchOfNonEmptySnapshot ==
    \A i \in PiItemsCompared :
        PiItemReports(res.items[i],
                      {EntriesNow[k].Label : k \in {e \in EntriesOfTool(ToolPi) :
                                                      /\ HasProvider(EntriesNow[e])
                                                      /\ ProvidersAllInRuntime(EntriesNow[e])}})

\* active compared a snapshot with no provider keys, and found no match
C26_EmptySnapshotCompared ==
    /\ PiItemsCompared # {}
    /\ \E e \in EntriesOfTool(ToolPi) :
          ProvidersAllInRuntime(EntriesNow[e]) /\ ~HasProvider(EntriesNow[e])
    /\ \A i \in PiItemsCompared : res.items[i].Status = "no matching saved profile"
\* the single-token tools
SingleTokenTools == {ToolCodex}

\* the labels that the joined labels of an ambiguous item name: the labels of the tool's
\* entries whose digest is the digest of the runtime file
DigestLabels(tool, entries, rt) ==
    {entries[k].Label : k \in {e \in DOMAIN entries :
        /\ entries[e].Tool = tool
        /\ entries[e].SHA256 = sha256Hex(ReadFile(rt, DefaultRuntime(tool)).raw)}}

\* the step is a successful active that covers tool, right after a successful save of
\* (tool, label) and a successful use of it to the default target
ActiveAfterSaveAndUse(tool) ==
    /\ hist.chain.stage = "used" /\ hist.chain.tool = tool
    /\ res'.op = "active" /\ res'.ok /\ ops' = ops + 1
    /\ res'.tool \in {"", tool}

\* C27: for a single-token tool, immediately after a successful save(tool, L) and a
\* successful use(tool, L) with no target override, active(tool) reports "match" with L,
\* or "ambiguous" with L among the labels; it reports "no matching saved profile" only
\* when the digest of the runtime file equals no saved entry's digest
C27_UsedProfileIsActive ==
    [][\A tool \in SingleTokenTools :
         /\ ActiveAfterSaveAndUse(tool) =>
               \A i \in 1..Len(res'.items) :
                   res'.items[i].Tool = tool =>
                       LET item == res'.items[i]
                           labels == DigestLabels(tool, loadState(stateFile).Entries, runtime)
                       IN
                       \/ item.Status = "match" /\ item.ActiveLabel = hist.chain.label
                       \/ /\ item.Status = "ambiguous"
                          /\ hist.chain.label \in labels /\ Cardinality(labels) >= 2
                          /\ item.ActiveLabel = stringsJoin(Ascending(labels))
         /\ (res'.op = "active" /\ res'.ok /\ ops' = ops + 1) =>
               \A i \in 1..Len(res'.items) :
                   (res'.items[i].Tool = tool
                      /\ res'.items[i].Status = "no matching saved profile")
                       => DigestLabels(tool, loadState(stateFile).Entries, runtime) = {}]_vars

\* active has just reported the label that was saved and then used as the match
C27_UsedLabelReportedActive ==
    /\ hist.chain.stage = "active" /\ hist.chain.tool = ToolCodex
    /\ res.op = "active" /\ res.ok
    /\ \E i \in 1..Len(res.items) :
          /\ res.items[i].Tool = ToolCodex
          /\ res.items[i].Status = "match"
          /\ res.items[i].ActiveLabel = hist.chain.label
\* the tools that the last call of active covered
ToolsInScope == IF res.tool = "" THEN {ToolCodex, ToolPi} ELSE {res.tool}

\* the runtime file of the tool
RuntimeOf(tool) == ReadFile(runtime, DefaultRuntime(tool))

\* active was called with a valid filter on a state document that loads
ActiveDecided ==
    /\ res.op = "active"
    /\ res.tool = "" \/ validateManagerTool(res.tool) = ""
    /\ loadStateErr(stateFile) = ""

\* a tool in scope has saved entries and a runtime file that exists and cannot be read
RuntimeReadError ==
    \E tool \in ToolsInScope : EntriesOfTool(tool) # {} /\ ReadFails(RuntimeOf(tool))

\* C28: active decides per tool in this order: no saved entries, then "no saved
\* profiles" without reading the runtime file; else a missing runtime file, then "runtime
\* auth file missing"; else a runtime file that is not a JSON object, then "runtime auth
\* JSON invalid"; these are statuses with no error; any other error of reading the
\* runtime file makes active fail
C28_ActiveDecidesInOrder ==
    ActiveDecided =>
        /\ RuntimeReadError => ~res.ok /\ res.err = "reading runtime auth file"
        /\ ~RuntimeReadError =>
              /\ res.ok
              /\ \A i \in 1..Len(res.items) :
                    LET item == res.items[i]
                        rtf == RuntimeOf(item.Tool)
                    IN
                    /\ item.Tool \in ToolsInScope
                    /\ item.Status = "no saved profiles" <=> EntriesOfTool(item.Tool) = {}
                    /\ item.Status = "runtime auth file missing"
                          <=> (EntriesOfTool(item.Tool) # {} /\ ~rtf.exists)
                    /\ item.Status = "runtime auth JSON invalid"
                          <=> (/\ EntriesOfTool(item.Tool) # {} /\ rtf.exists
                               /\ ~validateJSONObject(rtf.raw))

\* active reported "no saved profiles" for a tool whose runtime file cannot be read
C28_NoProfilesOverUnreadableRuntime ==
    /\ ActiveDecided /\ res.ok
    /\ \E i \in 1..Len(res.items) :
          /\ res.items[i].Status = "no saved profiles"
          /\ ReadFails(RuntimeOf(res.items[i].Tool))
\* item a comes before item b: by tool, then by label, in byte order
Before(a, b) ==
    \/ ToolRank(a.Tool) < ToolRank(b.Tool)
    \/ a.Tool = b.Tool /\ StringLess(a.Label, b.Label)

\* the entries that list is to return under the filter of the last call
EntriesToList ==
    {k \in DOMAIN EntriesNow :
        /\ ParseTool(EntriesNow[k].Tool)
        /\ res.tool = "" \/ res.tool = EntriesNow[k].Tool}

\* list was called with a valid filter on a state document that loads
ListDecided ==
    /\ res.op = "list"
    /\ res.tool = "" \/ validateManagerTool(res.tool) = ""
    /\ loadStateErr(stateFile) = ""

\* the snapshot file of the item is missing or cannot be read
SnapshotLost(item) ==
    LET read == ReadFile(snapshots, item.Snapshot) IN ~read.exists \/ ReadFails(read)

\* C29: list returns its items in ascending order of (tool, label), returns no item for
\* an entry whose tool does not parse or does not equal the filter, and for an entry
\* whose snapshot is missing or unreadable still returns an item, with status unknown,
\* needs_refresh unknown and the detail "snapshot missing or unreadable"
C29_ListSortedFilteredComplete ==
    ListDecided =>
        /\ res.ok
        /\ \A i \in 1..Len(res.items), j \in 1..Len(res.items) :
              i < j => Before(res.items[i], res.items[j])
        /\ Len(res.items) = Cardinality(EntriesToList)
        /\ {<<res.items[i].Tool, res.items[i].Label>> : i \in 1..Len(res.items)}
              = {<<EntriesNow[k].Tool, EntriesNow[k].Label>> : k \in EntriesToList}
        /\ \A i \in 1..Len(res.items) :
              SnapshotLost(res.items[i]) =>
                  /\ res.items[i].AuthInsight.Status = "unknown"
                  /\ res.items[i].AuthInsight.NeedsRefresh = "unknown"
                  /\ res.items[i].AuthInsight.Details = <<"snapshot missing or unreadable">>

\* list returned items of two tools, one of them with a lost snapshot, and left out the
\* entry of the unknown tool
C29_ListedTwoToolsOneLost ==
    /\ ListDecided /\ res.ok /\ res.tool = ""
    /\ \E k \in DOMAIN EntriesNow : ~ParseTool(EntriesNow[k].Tool)
    /\ Len(res.items) >= 2
    /\ res.items[1].Tool # res.items[Len(res.items)].Tool
    /\ \E i \in 1..Len(res.items) : SnapshotLost(res.items[i])
\* the selector names the key as a tool alias: "codex" names the keys that contain codex
\* or openai, "anthropic" the keys that contain anthropic, whatever their case
AliasNames(selector, key) ==
    \/ EqualFold(TrimSelector(selector), "codex")
          /\ ToLower(key) \in {"openai-codex", "codex", "openai"}
    \/ EqualFold(TrimSelector(selector), "anthropic") /\ ToLower(key) = "anthropic"

\* the provider keys of the bytes that the selector keeps
KeptKeys(raw, selector) ==
    {k \in KeysOf(raw) : EqualFold(k, TrimSelector(selector)) \/ AliasNames(selector, k)}

\* the bytes that the step's call filtered: the source of save, the snapshot of use
FilterInput ==
    IF res'.op = "save" THEN ReadFile(runtime, res'.source).raw
    ELSE ReadFile(snapshots, snapshotPath(res'.tool, res'.label)).raw

\* the step is a save or a use of the multi-provider tool that filtered a JSON object
\* with a selector
FilteringCall ==
    /\ ops' = ops + 1
    /\ res'.op \in {"save", "use"} /\ res'.tool = ToolPi /\ res'.provider # ""
    /\ res'.op = "save" => res'.source # ""
    /\ res'.op = "use" => stateKey(res'.tool, res'.label) \in DOMAIN loadState(stateFile).Entries
    /\ validateJSONObject(FilterInput)

\* C30: provider filtering with a selector keeps exactly the provider keys that equal the
\* selector ignoring case, or that the selector names as a tool alias, with their values
\* unchanged, and drops the others; when no key matches, the call fails with an error
\* that lists the available provider keys, and writes nothing
C30_SelectorKeepsNamedProviders ==
    [][FilteringCall =>
         LET kept == KeptKeys(FilterInput, res'.provider) IN
         /\ kept # {} =>
               /\ res'.ok
               /\ KeysOf(res'.raw) = kept
               /\ \A k \in kept : Canon(res'.raw.m[k]) = Canon(FilterInput.m[k])
         /\ kept = {} =>
               /\ ~res'.ok /\ res'.err = "pi provider not found"
               /\ Len(res'.available) = Cardinality(KeysOf(FilterInput))
               /\ {res'.available[i] : i \in 1..Len(res'.available)} = KeysOf(FilterInput)
               /\ <<runtime', snapshots', stateFile'>> = <<runtime, snapshots, stateFile>>]_vars

\* a save with the selector ANTHROPIC kept the keys anthropic and Anthropic and dropped
\* openai-codex
C30_KeptBothSpellings ==
    /\ res.op = "save" /\ res.ok /\ res.provider = "ANTHROPIC"
    /\ KeysOf(res.raw) = {"anthropic", "Anthropic"}
    /\ KeysOf(res.sourceBefore) = {"anthropic", "Anthropic", "openai-codex"}
(***************************************************************************)
(* Insight engine: determinism and totality (specification SpecInsight).   *)
(***************************************************************************)
\* C31: the multi-provider insight is a function of the payload and the time: the order
\* of the detail strings and the aggregate expiry are the same on every evaluation,
\* whatever the order in which the provider keys are visited, also when several
\* providers share the same status
C31_InsightIndependentOfKeyOrder ==
    calc.fn = "inspectPiOrders" =>
        /\ calc.insight.Details = calc.twin.Details
        /\ calc.insight.ExpiresAt = calc.twin.ExpiresAt

\* the same, for the payloads in which no two providers share a status
C31_DistinctStatusesAreOrdered ==
    (/\ calc.fn = "inspectPiOrders"
     /\ \A a \in DOMAIN calc.payload, b \in DOMAIN calc.payload :
           (/\ a # b
            /\ numberToFloat(calc.payload[a].expires)
            /\ numberToFloat(calc.payload[b].expires))
               => classifyExpiry(calc.payload[a].expires.ms, calc.clock)
                    # classifyExpiry(calc.payload[b].expires.ms, calc.clock))
        => calc.insight = calc.twin
\* the token has three segments, a header and claims that decode, and a numeric exp
DecodableWithExp(token) ==
    /\ Len(splitDots(token)) = 3
    /\ decodeHeader(splitDots(token)[1]).ok
    /\ decodeClaims(splitDots(token)[2]).ok
    /\ decodeClaims(splitDots(token)[2]).claims.exp.kind = "number"

\* the exp of a token, in milliseconds
ExpOf(token) == decodeClaims(splitDots(token)[2]).claims.exp.ms * Second

\* the insight has status unknown and exactly the detail
UnknownWith(insight, detail) ==
    /\ insight.Status = "unknown" /\ insight.NeedsRefresh = "unknown"
    /\ insight.Details = <<<<detail>>>>

C32_UnparsedBytesReported ==
    /\ calc.fn = "inspectAuth" /\ calc.tool = ToolCodex
    /\ ~calc.payload.valid
    /\ UnknownWith(calc.insight, "invalid JSON")

FailedCall(op) == ops' = ops + 1 /\ res'.op = op /\ ~res'.ok

\* the snapshot file of the call's (tool, label) is as the call found it
CalledSnapshotKept ==
    ReadFile(snapshots', snapshotPath(res'.tool, res'.label))
        = ReadFile(snapshots, snapshotPath(res'.tool, res'.label))

\* C33: if save returns an error at any step (source resolution, read, validation,
\* provider filtering, snapshot write, state load, state persistence), the snapshot file
\* for (tool, label) and the state document are both exactly as before the call
C33_FailedSaveChangesNothing ==
    [][FailedCall("save") => (CalledSnapshotKept /\ stateFile' = stateFile)]_vars

\* a save failed while persisting the state and left a snapshot whose digest is not the
\* one in its state entry
C33_SnapshotDivergedFromDigest ==
    /\ res.op = "save" /\ ~res.ok /\ res.err = "saving state" /\ res.hadEntry
    /\ LET key == stateKey(res.tool, res.label)
           entry == loadState(stateFile).Entries[key]
       IN /\ entry = res.entryBefore
          /\ sha256Hex(ReadFile(snapshots, entry.SnapshotPath).raw) # entry.SHA256

\* a save that fails before its snapshot write leaves the snapshot file and the state
\* document as they were
C33_EarlyFailedSaveChangesNothing ==
    [][(FailedCall("save") /\ "snapshot" \notin res'.accessed)
          => (snapshots' = snapshots /\ stateFile' = stateFile)]_vars
\* C34: if delete returns an error at any step, including a failure to persist the state
\* after the snapshot was removed, the snapshot file and the state entry are both exactly
\* as before the call
C34_FailedDeleteChangesNothing ==
    [][FailedCall("delete") => (CalledSnapshotKept /\ stateFile' = stateFile)]_vars

\* a delete failed while persisting the state: the entry is still there, its snapshot
\* file is gone
C34_EntryWithoutSnapshot ==
    /\ res.op = "delete" /\ ~res.ok /\ res.err = "saving state"
    /\ LET key == stateKey(res.tool, res.label)
       IN /\ hasEntry(loadState(stateFile), key)
          /\ loadState(stateFile).Entries[key] = res.entryBefore
          /\ res.snapBefore.kind = "object"
          /\ ~ReadFile(snapshots, res.entryBefore.SnapshotPath).exists

\* a delete that fails before it removes the snapshot leaves the snapshot file and the
\* state document as they were
C34_EarlyFailedDeleteChangesNothing ==
    [][(FailedCall("delete") /\ res'.err # "saving state")
          => (snapshots' = snapshots /\ stateFile' = stateFile)]_vars
\* C35: if use returns an error that does not report a rollback failure, the target file
\* and the state document are exactly as before the call: no last-used field and no
\* identity-cache entry changed, whichever step failed
C35_FailedUseChangesNothing ==
    [][(FailedCall("use") /\ res'.rollback # "failed")
          => (runtime' = runtime /\ stateFile' = stateFile)]_vars

\* a use wrote a target that existed with other bytes, failed to persist the state and
\* rolled the target back: the bytes of before the call are there, the entry has no new
\* last use
C35_RolledBackUseLeftNoTrace ==
    /\ res.op = "use" /\ ~res.ok /\ res.wroteTarget /\ res.rollback = "done"
    /\ res.targetBefore.kind = "object" /\ res.targetBefore # res.raw
    /\ ReadFile(runtime, res.target).raw = res.targetBefore
    /\ loadState(stateFile).Entries[stateKey(res.tool, res.label)] = res.entryBefore
(***************************************************************************)
(* The store of snapshots and its state document (specification SpecStore) *)
(***************************************************************************)
\* every entry of the state document names the snapshot path of its (tool, label), a
\* snapshot file is there, and the digest of its bytes is the entry's save digest
StoreConsistent(sf, sn) ==
    LET entries == loadState(sf).Entries IN
    \A key \in DOMAIN entries :
        LET entry == entries[key]
            file == ReadFile(sn, entry.SnapshotPath)
        IN /\ key = stateKey(entry.Tool, entry.Label)
           /\ entry.SnapshotPath = snapshotPath(entry.Tool, entry.Label)
           /\ file.exists
           /\ sha256Hex(file.raw) = entry.SHA256

\* the step is a call that succeeded, or a tool rewriting its runtime file
SucceededCall ==
    /\ ops' = ops + 1
    /\ \/ res'.op \in {"save", "use", "delete", "list", "active"} /\ res'.ok
       \/ res'.op = "external"

\* C36: after any sequence of save, use, delete, list and active calls that all succeed,
\* with no external modification of the data root, every state entry's snapshot path is
\* the path derived from its (tool, label), a snapshot file exists there, and the SHA-256
\* of its bytes equals the entry's save digest: the property holds of the empty store and
\* every successful call keeps it
C36_SucceededCallsKeepStoreConsistent ==
    [][(StoreConsistent(stateFile, snapshots) /\ SucceededCall)
          => StoreConsistent(stateFile', snapshots')]_vars

\* a label saved, used and saved again with other bytes, next to a second saved label:
\* the new snapshot and the new digest agree
C36_SavedTwiceWithOtherBytes ==
    /\ res.op = "save" /\ res.ok /\ res.hadEntry /\ res.ChangedSinceLastSave
    /\ res.entryBefore.LastUsedSHA # NoSHA
    /\ Cardinality(DOMAIN loadState(stateFile).Entries) = 2
    /\ StoreConsistent(stateFile, snapshots)
    /\ sha256Hex(ReadFile(snapshots, snapshotPath(res.tool, res.label)).raw)
          # res.entryBefore.SHA256
\* the step is a call of List or Active
ReadOnlyCall == ops' = ops + 1 /\ res'.op \in {"list", "active"}

\* C37: list and active are read-only: whether they succeed or fail, the state document,
\* every snapshot file and every runtime file are unchanged
C37_ListAndActiveWriteNothing ==
    [][ReadOnlyCall
          => (stateFile' = stateFile /\ snapshots' = snapshots /\ runtime' = runtime)]_vars

\* a List succeeded on a data root that has no state document, and there is still none
C37_ListedWithoutStateDocument ==
    /\ res.op = "list" /\ res.ok
    /\ res.stateBefore = "missing"
    /\ StatePath \notin DOMAIN stateFile

\* an Active failed over an unreadable runtime file of a tool with saved profiles
C37_ActiveFailedOnRuntime ==
    /\ res.op = "active" /\ ~res.ok /\ res.err = "reading runtime auth file"
    /\ DOMAIN loadState(stateFile).Entries # {}
\* the step is a call of save, use or Delete
MutatingCall == ops' = ops + 1 /\ res'.op \in {"save", "use", "delete"}

\* the entries of the state document that belong to another (tool, label) than the
\* call's are the same before and after the step
OtherEntriesKept ==
    LET before == loadState(stateFile).Entries
        after == loadState(stateFile').Entries
        Other(entry) == entry.Tool # res'.tool \/ entry.Label # res'.label
    IN /\ \A key \in DOMAIN before :
             Other(before[key]) => (key \in DOMAIN after /\ after[key] = before[key])
       /\ \A key \in DOMAIN after :
             Other(after[key]) => (key \in DOMAIN before /\ after[key] = before[key])

\* the snapshot files of another (tool, label) than the call's are the same
OtherSnapshotsKept ==
    \A path \in (DOMAIN snapshots \cup DOMAIN snapshots') \ {snapshotPath(res'.tool, res'.label)} :
        /\ path \in DOMAIN snapshots /\ path \in DOMAIN snapshots'
        /\ snapshots'[path] = snapshots[path]

\* what a use leaves of the entry it uses: everything but the last use
SavedFields(entry) ==
    <<entry.Tool, entry.Label, entry.SourcePath, entry.SnapshotPath, entry.SHA256,
      entry.SavedAt>>

UsedEntryKept ==
    LET before == loadState(stateFile).Entries
        after == loadState(stateFile').Entries
    IN \A key \in DOMAIN before :
          (before[key].Tool = res'.tool /\ before[key].Label = res'.label)
              => (key \in DOMAIN after /\ SavedFields(after[key]) = SavedFields(before[key]))

\* C38: save, use or delete on (tool, label) leaves every other state entry and every
\* other snapshot file unchanged; use additionally leaves the used entry's snapshot
\* file, save digest, save timestamp, source path and snapshot path unchanged
C38_OtherProfilesUntouched ==
    [][MutatingCall
          => /\ OtherEntriesKept
             /\ OtherSnapshotsKept
             /\ res'.op = "use" => (snapshots' = snapshots /\ UsedEntryKept)]_vars

\* two tools hold a profile under the same label; the one was just saved again with
\* other bytes, the other's entry and snapshot are there
C38_SavedBesideSameLabel ==
    /\ res.op = "save" /\ res.ok /\ res.tool = ToolPi /\ res.ChangedSinceLastSave
    /\ res.hadEntry
    /\ \E key \in DOMAIN loadState(stateFile).Entries :
          LET entry == loadState(stateFile).Entries[key] IN
          /\ entry.Tool = ToolCodex /\ entry.Label = res.label
          /\ ReadFile(snapshots, entry.SnapshotPath).exists
(***************************************************************************)
(* The last use of a label that is deleted and saved again (specification  *)
(* SpecReuse)                                                              *)
(***************************************************************************)
\* the (tool, label) pairs that were used, deleted after that, saved again and not used
\* since that save
SavedAgainUnused ==
    {key \in hist.dropped : key \in DOMAIN hist.use /\ hist.use[key] = "new"}

\* C39: the last-used history does not survive a delete: after use(tool, L),
\* delete(tool, L) and a new save(tool, L) of any bytes, the next use returns "first
\* use", and list shows an empty last-used timestamp for L until that use
C39_LastUseDoesNotSurviveDelete ==
    /\ (res.op = "use" /\ res.ok /\ res.useBefore = "new"
          /\ <<res.tool, res.label>> \in hist.dropped)
          => res.ChangeSinceLastUse = "first use"
    /\ (res.op = "list" /\ res.ok) =>
          \A i \in 1..Len(res.items) :
              <<res.items[i].Tool, res.items[i].Label>> \in SavedAgainUnused
                  => res.items[i].LastUsedAt = NoTime
    /\ \A key \in SavedAgainUnused :
          /\ key \in DOMAIN loadState(stateFile).Entries
          /\ loadState(stateFile).Entries[key].LastUsedAt = NoTime
          /\ loadState(stateFile).Entries[key].LastUsedSHA = NoSHA

\* the label was used, deleted and saved again; the use after that was a first use
C39_FirstUseAfterDeleteAndSave ==
    /\ res.op = "use" /\ res.ok /\ res.useBefore = "new"
    /\ <<res.tool, res.label>> \in hist.dropped
    /\ res.ChangeSinceLastUse = "first use"

\* the label was used, deleted and saved again; the list after that shows it without
\* a last use
C39_ListedWithoutLastUse ==
    /\ res.op = "list" /\ res.ok
    /\ \E i \in 1..Len(res.items) :
          /\ <<res.items[i].Tool, res.items[i].Label>> \in SavedAgainUnused
          /\ res.items[i].LastUsedAt = NoTime
(***************************************************************************)
(* The identity cache over deletes (specification SpecIdentity)            *)
(***************************************************************************)
\* the step is a successful save, use or Delete
SucceededMutation == ops' = ops + 1 /\ res'.op \in {"save", "use", "delete"} /\ res'.ok

\* the identity that the bytes of the step's call carry
IdentityOfCall == inspectAuth(res'.tool, res'.raw)

\* every account of the cache with an email is in the cache after the step, with an email
CachedEmailsKept ==
    \A X \in DOMAIN CacheBefore :
        CacheBefore[X].Email # "" => (X \in DOMAIN CacheAfter /\ CacheAfter[X].Email # "")

\* a successful save or use of bytes that carry an account id and an email records them
EmailRecorded ==
    (res'.op \in {"save", "use"} /\ IdentityOfCall.AccountID # ""
     /\ IdentityOfCall.AccountEmail # "")
        => /\ IdentityOfCall.AccountID \in DOMAIN CacheAfter
           /\ CacheAfter[IdentityOfCall.AccountID].Email = IdentityOfCall.AccountEmail

\* a successful save or use of bytes that carry a cached account id and no email reports
\* the cached email
CachedEmailResolved ==
    (res'.op \in {"save", "use"} /\ IdentityOfCall.AccountID \in DOMAIN CacheBefore
     /\ IdentityOfCall.AccountEmail = "")
        => res'.Insight.AccountEmail = CacheBefore[IdentityOfCall.AccountID].Email

\* C40: no operation removes an identity-cache entry: once a successful save or use has
\* recorded an email for account id X, the cache holds a non-empty email for X after
\* every later successful save, use or delete; deleting the seeding label does not stop
\* a later payload with X and no email from resolving that email
C40_CacheOutlivesDeletes ==
    [][SucceededMutation
          => (CachedEmailsKept /\ EmailRecorded /\ CachedEmailResolved)]_vars

\* the only saved label is new and its bytes carry an account id and no email: the label
\* that seeded the cache is deleted, and the save reported the cached email
C40_ResolvedAfterSeedDeleted ==
    /\ res.op = "save" /\ res.ok /\ ~res.hadEntry
    /\ DOMAIN loadState(stateFile).Entries = {stateKey(res.tool, res.label)}
    /\ inspectAuth(res.tool, res.raw).AccountID # ""
    /\ inspectAuth(res.tool, res.raw).AccountEmail = ""
    /\ res.Insight.AccountEmail # ""
    /\ res.Insight.AccountEmail
          = loadState(stateFile).IdentityCache[res.Insight.AccountID].Email
====
